---- MODULE Spec2Model ----
(***************************************************************************)
(* Verification model of the Ecohealth dashboard: the weather-data layer   *)
(* (src/weather_api.py), the health recommendations (src/openai_helper.py),*)
(* the subscriber store (src/database.py) and the newsletter job and its   *)
(* scheduler (src/newsletter.py).  Each component has its own              *)
(* specification; the variables of the other components stay idle in it.   *)
(*                                                                         *)
(* Units.  Python floats are modelled by scaled integers:                  *)
(*   pollutant concentration  1/20 ug/m3   (12.05 ug/m3 = 241)             *)
(*   temperature              1/10 degree C (22.0 C = 220)                 *)
(*   humidity, wind, precipitation, cloud cover   1/10 of the unit         *)
(*   pressure                 1/100 hPa    (1013.25 hPa = 101325)          *)
(*   visibility               metres on input, 1/1000 km in the result     *)
(*   time                     minutes since an arbitrary local midnight    *)
(*   hourly AQI series        1/10000 index point (factor/100, jitter/100) *)
(*   daily AQI average        1/100 index point                            *)
(*   AQI of a recommendation  1/10 index point                             *)
(*   calendar date            day number                                   *)
(* On the 1/20 ug/m3 grid the float interpolation of the calculator and    *)
(* the exact integer arithmetic used here agree for every concentration.   *)
(***************************************************************************)
EXTENDS Integers, Sequences, FiniteSets, TLC

VARIABLES
    components,     \* argument of calculate_aqi_from_pollutants
    aqi_value       \* its return value, None while the call is pending

aqi_vars == <<components, aqi_value>>

VARIABLES
    cur_pc,          \* position in get_current_weather_and_aqi
    api_key,         \* OPENWEATHER_API_KEY is non-empty
    result,          \* the result dictionary being filled
    weather_success, \* the local flag of the same name
    respA,           \* what Provider A (Open-Meteo) answered
    respB,           \* what Provider B (OpenWeatherMap weather) answered
    respC,           \* what Provider C (OpenWeatherMap air pollution) answered
    after_a,         \* history: result as Provider A's block left it
    attempted,       \* history: providers whose try block was entered
    failed           \* history: providers whose try block raised

cur_vars == <<cur_pc, api_key, result, weather_success, respA, respB, respC,
              after_a, attempted, failed>>

VARIABLES
    hist_pc,        \* position in get_historical_data
    now,            \* datetime.now() during the call
    place,          \* <<lat, date.today().month>>
    rng,            \* the random draws of the call
    current_data,   \* what get_current_weather_and_aqi returned
    current_temp,   \* locals of the same names
    current_aqi,
    forecast_data,
    aqi_data,
    hour_offset,
    iter,           \* locals of the latest loop iteration
    all_data,
    returned,       \* the list returned to the caller
    fetch_failed    \* history: the forecast and AQI calls that raised

hist_vars == <<hist_pc, now, place, rng, current_data, current_temp, current_aqi,
               forecast_data, aqi_data, hour_offset, iter, all_data, returned,
               fetch_failed>>

VARIABLES
    week_pc,        \* position in get_last_week_data
    current_date,   \* datetime.now().date(), as a day number
    week_rng,       \* the random draws of the call
    weather_data,   \* what the weather archive answered
    aqi_history,    \* what the air_pollution/history call answered
    daily_bound,    \* whether the local daily_weather has been assigned
    daily_weather,  \* the dictionary, as its items in insertion order
    week_current,   \* what get_current_weather_and_aqi returned
    week_result     \* the list returned to the caller

week_vars == <<week_pc, current_date, week_rng, weather_data, aqi_history,
               daily_bound, daily_weather, week_current, week_result>>

VARIABLES
    rec_pc,          \* position in get_health_recommendations
    temperature_c,   \* the argument and local of the same name
    rec_aqi,         \* the argument and local aqi
    client,          \* whether client and OPENAI_API_KEY are both set
    retries,         \* the local of the same name
    llm_log,         \* history: the outcome of each LLM call, in order
    rec_source,      \* history: which return statement returned
    recommendations  \* the value returned to the caller

rec_vars == <<rec_pc, temperature_c, rec_aqi, client, retries, llm_log,
              rec_source, recommendations>>

VARIABLES
    subscribers,   \* the rows of the subscribers table
    db_calls,      \* the number of calls begun so far, also the clock
    last_call      \* each session's latest call: its arguments, its position,
                   \* the row it loaded and what it returned

db_vars == <<subscribers, db_calls, last_call>>

VARIABLES
    fc_pc,              \* position in get_forecast_data
    fc_today,           \* datetime.now().date(), as a day number
    fc_forecast,        \* what the forecast call answered
    aqi_forecast,       \* what the air_pollution/forecast call answered
    processed_forecast, \* the list returned to the caller
    fc_raised           \* history: the step of the call that raised

fc_vars == <<fc_pc, fc_today, fc_forecast, aqi_forecast, processed_forecast,
             fc_raised>>

VARIABLES
    news_pc,          \* position in send_newsletters
    sendgrid_key,     \* SENDGRID_API_KEY is non-empty
    news_subscribers, \* the local 'subscribers' of send_newsletters
    news_idx,         \* position of the loop in that list
    response,         \* the reply to the latest post: its status class
    attempt_log,      \* history: the subscribers attempted, with the outcome
    other_calls       \* history: calls other sessions made during the run

news_vars == <<news_pc, sendgrid_key, news_subscribers, news_idx, response,
               attempt_log, other_calls>>

VARIABLES
    sched_running,   \* scheduler.running
    sched_jobs,      \* the send_newsletters jobs in the scheduler's job store
    sched_pending,   \* the jobs added while stopped, stored when it starts
    sess_pc,         \* position of each user session in start_scheduler
    stops,           \* history: the stop_scheduler calls made
    trigger_runs     \* history: the runs the latest weekly trigger started

sched_vars == <<sched_running, sched_jobs, sched_pending, sess_pc, stops,
               trigger_runs>>

ext_vars == <<week_vars, rec_vars, db_vars, fc_vars, news_vars, sched_vars>>

\* what each later component leaves alone
week_rest == <<aqi_vars, cur_vars, hist_vars, rec_vars, db_vars, fc_vars,
               news_vars, sched_vars>>
rec_rest == <<aqi_vars, cur_vars, hist_vars, week_vars, db_vars, fc_vars,
              news_vars, sched_vars>>
db_rest == <<aqi_vars, cur_vars, hist_vars, week_vars, rec_vars, fc_vars,
             news_vars, sched_vars>>
fc_rest == <<aqi_vars, cur_vars, hist_vars, week_vars, rec_vars, db_vars,
             news_vars, sched_vars>>
\* a newsletter run works on the subscriber store
news_rest == <<aqi_vars, cur_vars, hist_vars, week_vars, rec_vars, fc_vars,
               sched_vars>>
sched_rest == <<aqi_vars, cur_vars, hist_vars, week_vars, rec_vars, db_vars,
                fc_vars, news_vars>>

vars == <<aqi_vars, cur_vars, hist_vars, ext_vars>>

\* Python None, for numeric fields and for absent inputs.
None == -999999

----------------------------------------------------------------------------
(* Bounds of the calculator's inputs *)

\* largest concentration tried (605 ug/m3, beyond both tables)
MaxConc == 12100
\* distance between the regularly spaced concentrations tried
ConcStride == 400

----------------------------------------------------------------------------
(* calculate_aqi_from_pollutants *)

\* rows <<low_conc, high_conc, low_aqi, high_aqi>>, concentrations in 1/20 ug/m3
pm25_breakpoints ==
    << <<0, 240, 0, 50>>,
       <<242, 708, 51, 100>>,
       <<710, 1108, 101, 150>>,
       <<1110, 3008, 151, 200>>,
       <<3010, 5008, 201, 300>>,
       <<5010, 10008, 301, 500>> >>

pm10_breakpoints ==
    << <<0, 1080, 0, 50>>,
       <<1100, 3080, 51, 100>>,
       <<3100, 5080, 101, 150>>,
       <<5100, 7080, 151, 200>>,
       <<7100, 8480, 201, 300>>,
       <<8500, 12080, 301, 500>> >>

\* int(((high_aqi - low_aqi) / (high_conc - low_conc)) * (c - low_conc) + low_aqi)
Interpolate(row, concentration) ==
    ((row[4] - row[3]) * (concentration - row[1])) \div (row[2] - row[1]) + row[3]

RECURSIVE ScanBreakpoints(_, _, _)
ScanBreakpoints(concentration, breakpoints, i) ==
    IF i > Len(breakpoints) THEN 500
    ELSE IF breakpoints[i][1] <= concentration /\ concentration <= breakpoints[i][2]
         THEN Interpolate(breakpoints[i], concentration)
         ELSE ScanBreakpoints(concentration, breakpoints, i + 1)

\* faulty variant: the interpolation forgets to subtract the row's low concentration
calculate_pollutant_aqi_noshift(concentration, breakpoints) ==
    LET hit == {i \in 1..Len(breakpoints) :
                   breakpoints[i][1] <= concentration /\ concentration <= breakpoints[i][2]}
    IN IF hit = {} THEN 500
       ELSE LET row == breakpoints[CHOOSE i \in hit : TRUE]
            IN ((row[4] - row[3]) * concentration) \div (row[2] - row[1]) + row[3]

calculate_pollutant_aqi(concentration, breakpoints) ==
    ScanBreakpoints(concentration, breakpoints, 1)

MaxOfSeq(s) == CHOOSE m \in {s[i] : i \in 1..Len(s)} : \A i \in 1..Len(s) : s[i] <= m

\* aqi_values after the two "if ... in components" blocks
aqi_values_of(comps) ==
    (IF "pm2_5" \in DOMAIN comps
        THEN <<calculate_pollutant_aqi(comps["pm2_5"], pm25_breakpoints)>> ELSE <<>>)
    \o
    (IF "pm10" \in DOMAIN comps
        THEN <<calculate_pollutant_aqi(comps["pm10"], pm10_breakpoints)>> ELSE <<>>)

\* faulty variant: returns the first pollutant's value instead of the worst one
calculate_aqi_first(comps) ==
    IF aqi_values_of(comps) # <<>> THEN aqi_values_of(comps)[1] ELSE 50

calculate_aqi_from_pollutants(comps) ==
    IF aqi_values_of(comps) # <<>> THEN MaxOfSeq(aqi_values_of(comps)) ELSE 50

----------------------------------------------------------------------------
(* Inputs of the calculator *)

\* concentrations next to a row's ends, and in the middle of the gap
\* between two adjacent rows (12.05 for pm2_5, 54.5 for pm10)
NearBreaks(breakpoints) ==
    UNION { {breakpoints[i][1] - 1, breakpoints[i][1], breakpoints[i][1] + 1,
             breakpoints[i][2] - 1, breakpoints[i][2], breakpoints[i][2] + 1}
            : i \in 1..Len(breakpoints) }
    \cup { (breakpoints[i][2] + breakpoints[i + 1][1]) \div 2
            : i \in 1..(Len(breakpoints) - 1) }

Concs(breakpoints) ==
    {c \in 0..MaxConc : c % ConcStride = 0}
    \cup {c \in NearBreaks(breakpoints) : c >= 0}

TableOf(key) == IF key = "pm2_5" THEN pm25_breakpoints ELSE pm10_breakpoints

\* a mapping holding pm2_5 = a, pm10 = b, no2 = o; None means the key is absent
MkComponents(a, b, o) ==
    [k \in ({"pm2_5" : x \in {a} \ {None}} \cup {"pm10" : x \in {b} \ {None}}
            \cup {"no2" : x \in {o} \ {None}})
       |-> IF k = "pm2_5" THEN a ELSE IF k = "pm10" THEN b ELSE o]

\* a mapping holding the single key given
MkSingle(key, c) == [k \in {key} |-> c]

ComponentsSet ==
    { MkComponents(a, b, o) :
        a \in Concs(pm25_breakpoints) \cup {None},
        b \in Concs(pm10_breakpoints) \cup {None},
        o \in {None, 0} }

----------------------------------------------------------------------------
(* get_current_weather_and_aqi *)

ResultFields ==
    {"temperature", "temperature_apparent", "humidity", "wind_speed",
     "precipitation_probability", "cloud_cover", "pressure", "visibility", "aqi"}

\* the result dictionary as constructed; error None is the empty sequence,
\* an error text is the sequence of the messages joined by newlines
InitialResult ==
    [temperature |-> None, temperature_apparent |-> None, humidity |-> None,
     wind_speed |-> None, precipitation_probability |-> None,
     cloud_cover |-> None, pressure |-> None, visibility |-> None,
     aqi |-> None, error |-> <<>>]

\* faulty variant: a later error replaces the earlier ones
RecordErrorOverwrite(res, msg) == [res EXCEPT !.error = <<msg>>]

\* result['error'] = msg, or result['error'] += "\n" + msg when already set
RecordError(res, msg) == [res EXCEPT !.error = Append(res.error, msg)]

\* visibility_m / 1000 (metres to km).  The float division is exact to the
\* metre; the quotient is held in 1/1000 km, in which 1500 m = 1.5 km is
\* 1500, 999 m = 0.999 km is 999, and the default 10.0 km is 10000
MetresToKm(visibility_m) == visibility_m

\* faulty variant: the check also demands precipitation_probability
CoreFourPresent(res) ==
    /\ res.temperature # None
    /\ res.humidity # None
    /\ res.wind_speed # None
    /\ res.precipitation_probability # None

\* all(v is not None for v in [temperature, humidity, wind_speed])
CoreReadingsPresent(res) ==
    /\ res.temperature # None
    /\ res.humidity # None
    /\ res.wind_speed # None

\* lines 124-130: the seven fields copied from Open-Meteo's "current"
ExtractA(res, cur) ==
    [res EXCEPT !.temperature = cur.temperature_2m,
                !.temperature_apparent = cur.apparent_temperature,
                !.humidity = cur.relative_humidity_2m,
                !.wind_speed = cur.wind_speed_10m,
                !.precipitation_probability = cur.precipitation_probability,
                !.cloud_cover = cur.cloud_cover,
                !.pressure = cur.pressure_msl]

\* The Open-Meteo block (lines 102-145).  rA.status is "raise" (the request
\* or raise_for_status failed), "empty" (no or empty "current"), "ok", or
\* "bad_visibility" (a visibility that cannot be divided: the block raises
\* after the seven fields were copied).
FetchA(res, rA) ==
    IF rA.status = "raise"
    THEN [result |-> RecordError(res, "Open-Meteo API error"),
          weather_success |-> FALSE, failed |-> TRUE]
    ELSE IF rA.status = "empty"
    THEN [result |-> res, weather_success |-> FALSE, failed |-> FALSE]
    ELSE IF rA.status = "bad_visibility"
    THEN [result |-> RecordError(ExtractA(res, rA.current), "Open-Meteo API error"),
          weather_success |-> FALSE, failed |-> TRUE]
    ELSE LET r1 == ExtractA(res, rA.current)
             r2 == IF rA.current.visibility # None
                   THEN [r1 EXCEPT !.visibility = MetresToKm(rA.current.visibility)]
                   ELSE r1
         IN [result |-> r2, weather_success |-> CoreReadingsPresent(r2),
             failed |-> FALSE]

\* The OpenWeatherMap weather block (lines 149-190), entered when
\* weather_success is false.  rB.status is "raise" (no key, the request or
\* raise_for_status failed, or 'main' is no object), "ok", or "bad_wind",
\* "bad_clouds", "bad_visibility": that section cannot be read and the
\* block raises after the sections before it were copied.
FetchB(res, rB, key) ==
    IF ~key \/ rB.status = "raise"
    THEN [result |-> RecordError(res, "OpenWeatherMap API error"), failed |-> TRUE]
    ELSE LET r1 == IF rB.has_main
                   THEN [res EXCEPT !.temperature = rB.main.temp,
                                    !.temperature_apparent = rB.main.feels_like,
                                    !.humidity = rB.main.humidity,
                                    !.pressure = rB.main.pressure]
                   ELSE res
             r2 == IF rB.has_wind THEN [r1 EXCEPT !.wind_speed = rB.wind_speed] ELSE r1
             r3 == IF rB.has_clouds THEN [r2 EXCEPT !.cloud_cover = rB.clouds_all] ELSE r2
             r4 == IF rB.visibility # None
                   THEN [r3 EXCEPT !.visibility = MetresToKm(rB.visibility)]
                   ELSE r3
         IN IF rB.status = "bad_wind"
            THEN [result |-> RecordError(r1, "OpenWeatherMap API error"),
                  failed |-> TRUE]
            ELSE IF rB.status = "bad_clouds"
            THEN [result |-> RecordError(r2, "OpenWeatherMap API error"),
                  failed |-> TRUE]
            ELSE IF rB.status = "bad_visibility"
            THEN [result |-> RecordError(r3, "OpenWeatherMap API error"),
                  failed |-> TRUE]
            ELSE [result |-> r4, failed |-> FALSE]

\* The air-pollution block (lines 193-220).  rC.has_list: the answer has a
\* non-empty 'list'; rC.components: the 'components' of its first element.
FetchC(res, rC, key) ==
    IF ~key \/ rC.status = "raise"
    THEN [result |-> RecordError(res, "AQI API error"), failed |-> TRUE]
    ELSE IF rC.has_list /\ DOMAIN rC.components # {}
    THEN [result |-> [res EXCEPT !.aqi = calculate_aqi_from_pollutants(rC.components)],
          failed |-> FALSE]
    ELSE [result |-> res, failed |-> FALSE]

\* lines 223-241
ApplyDefaults(res) ==
    LET t == IF res.temperature = None THEN 220 ELSE res.temperature
    IN [res EXCEPT
          !.temperature = t,
          !.temperature_apparent = IF @ = None THEN t ELSE @,
          !.humidity = IF @ = None THEN 500 ELSE @,
          !.wind_speed = IF @ = None THEN 50 ELSE @,
          !.precipitation_probability = IF @ = None THEN 0 ELSE @,
          !.cloud_cover = IF @ = None THEN 100 ELSE @,
          !.pressure = IF @ = None THEN 101325 ELSE @,
          !.visibility = IF @ = None THEN 10000 ELSE @,
          !.aqi = IF @ = None THEN 50 ELSE @]

\* the whole function, for its callers
get_current_weather_and_aqi(rA, rB, rC, key) ==
    LET a == FetchA(InitialResult, rA)
        b == IF a.weather_success THEN a.result ELSE FetchB(a.result, rB, key).result
    IN ApplyDefaults(FetchC(b, rC, key).result)

----------------------------------------------------------------------------
(* Provider answers tried *)

\* an absent key and a null value read the same through .get()
Opt(v) == {None, v}

CurrentA(t, ta, h, w, pp, cc, p, v) ==
    [temperature_2m |-> t, apparent_temperature |-> ta, relative_humidity_2m |-> h,
     wind_speed_10m |-> w, precipitation_probability |-> pp, cloud_cover |-> cc,
     pressure_msl |-> p, visibility |-> v]

NoCurrentA == CurrentA(None, None, None, None, None, None, None, None)

FullCurrentA == CurrentA(215, 205, 640, 32, 300, 750, 100980, 24140)

RespASet ==
    {[status |-> "raise", current |-> NoCurrentA],
     [status |-> "empty", current |-> NoCurrentA],
     [status |-> "bad_visibility", current |-> FullCurrentA]}
    \cup
    {[status |-> "ok", current |-> c] :
        c \in {CurrentA(t, ta, h, w, pp, cc, p, v) :
                 t \in Opt(215), ta \in Opt(205), h \in Opt(640), w \in Opt(32),
                 pp \in Opt(300), cc \in Opt(750), p \in Opt(100980),
                 v \in Opt(24140)} \ {NoCurrentA}}

MainB(t, f, h, p) == [temp |-> t, feels_like |-> f, humidity |-> h, pressure |-> p]

NoMainB == MainB(None, None, None, None)

\* 'main' complete, or lacking one of its four fields
MainsB ==
    {MainB(190, 181, 710, 101500), MainB(None, 181, 710, 101500),
     MainB(190, None, 710, 101500), MainB(190, 181, None, 101500),
     MainB(190, 181, 710, None)}

NoRespB ==
    [status |-> "raise", has_main |-> FALSE, main |-> NoMainB, has_wind |-> FALSE,
     wind_speed |-> None, has_clouds |-> FALSE, clouds_all |-> None,
     visibility |-> None]

\* The answers of Provider B.  Each of 'main', 'wind' and 'clouds' is absent,
\* or present with its fields (an empty object has none of them: .get()
\* gives None); an absent section is written with has_* false and no fields.
RespBSet ==
    LET mains == {<<FALSE, NoMainB>>} \cup {<<TRUE, m>> : m \in MainsB \cup {NoMainB}}
        winds == {<<FALSE, None>>} \cup {<<TRUE, ws>> : ws \in Opt(41)}
        clouds == {<<FALSE, None>>} \cup {<<TRUE, ca>> : ca \in Opt(400)}
        RespB(st, mn, wd, cl, v) ==
            [status |-> st, has_main |-> mn[1], main |-> mn[2],
             has_wind |-> wd[1], wind_speed |-> wd[2],
             has_clouds |-> cl[1], clouds_all |-> cl[2], visibility |-> v]
    IN {NoRespB}
       \cup
       {RespB("ok", mn, wd, cl, v) :
           mn \in mains, wd \in winds, cl \in clouds, v \in Opt(1500)}
       \cup
       \* 'wind' is no object: the block raises at line 174
       {RespB("bad_wind", mn, <<FALSE, None>>, <<FALSE, None>>, None) : mn \in mains}
       \cup
       \* 'clouds' is no object: the block raises at line 177
       {RespB("bad_clouds", mn, wd, <<FALSE, None>>, None) :
           mn \in mains, wd \in winds}
       \cup
       \* 'visibility' cannot be divided: the block raises at line 183
       {RespB("bad_visibility", mn, wd, cl, None) :
           mn \in mains, wd \in winds, cl \in clouds}

NoComponents == [k \in {} |-> 0]

\* pollutant mappings of the air-pollution answer: none, both at 0, pm2_5
\* alone, both with pm10 the worse, and one without pm2_5 and pm10
CurComponents ==
    {NoComponents, MkComponents(0, 0, 0), MkComponents(700, None, None),
     MkComponents(100, 9000, 0), MkComponents(None, None, 0)}

RespCSet ==
    {[status |-> "raise", has_list |-> FALSE, components |-> NoComponents],
     [status |-> "ok", has_list |-> FALSE, components |-> NoComponents]}
    \cup
    {[status |-> "ok", has_list |-> TRUE, components |-> c] : c \in CurComponents}

----------------------------------------------------------------------------
(* Specification of the fetcher: one call per behaviour *)

NoIteration ==
    [hour_of_day |-> None, temp_found |-> FALSE, aqi_found |-> FALSE,
     aqi_factor |-> None, random_factor |-> None, aqi |-> None]

HistIdle ==
    /\ hist_pc = "idle"
    /\ now = 0
    /\ place = <<0, 1>>
    /\ rng = [h \in 0..23 |-> 2]
    /\ current_data = InitialResult
    /\ current_temp = None
    /\ current_aqi = None
    /\ forecast_data = <<>>
    /\ aqi_data = <<>>
    /\ hour_offset = 0
    /\ iter = NoIteration
    /\ all_data = <<>>
    /\ returned = <<>>
    /\ fetch_failed = {}

AqiIdle ==
    /\ components = NoComponents
    /\ aqi_value = None

NoArchive ==
    [status |-> "none", has_daily |-> FALSE, time |-> <<>>,
     temperature_2m_min |-> <<>>, temperature_2m_max |-> <<>>,
     temperature_2m_mean |-> <<>>, relative_humidity_2m_mean |-> <<>>]

NoAqiHistory == [status |-> "none", has_list |-> FALSE, list |-> <<>>]

WeekIdle ==
    /\ week_pc = "idle"
    /\ current_date = 0
    /\ week_rng = <<2, 2, 2>>
    /\ weather_data = NoArchive
    /\ aqi_history = NoAqiHistory
    /\ daily_bound = FALSE
    /\ daily_weather = <<>>
    /\ week_current = InitialResult
    /\ week_result = <<>>

NoText == [kind |-> "none", text |-> <<>>]

RecIdle ==
    /\ rec_pc = "idle"
    /\ temperature_c = None
    /\ rec_aqi = None
    /\ client = FALSE
    /\ retries = 0
    /\ llm_log = <<>>
    /\ rec_source = "none"
    /\ recommendations = NoText

\* the sessions that call the store at the same time
DbSessions == {"a", "b"}

\* no row loaded
NoRow ==
    [id |-> 0, name |-> "", email |-> "", subscribed_at |-> None,
     is_active |-> FALSE, location_city |-> "", location_state |-> "",
     location_country |-> "", last_email_sent |-> None]

NoCall ==
    [op |-> "none", name |-> "", email |-> "",
     place |-> [city |-> "", state |-> "", country |-> ""],
     pc |-> "none", attempt |-> 0, row |-> NoRow, stamp |-> None,
     fault |-> FALSE, overlapped |-> FALSE,
     result |-> [success |-> FALSE, message |-> "", total |-> None,
                 active |-> None, inactive |-> None]]

\* the table as create_all leaves it, before any call
DbIdle ==
    /\ subscribers = {}
    /\ db_calls = 0
    /\ last_call = [s \in DbSessions |-> NoCall]

NoAnswer == [status |-> "none", has_list |-> FALSE, list |-> <<>>]

FcIdle ==
    /\ fc_pc = "idle"
    /\ fc_today = 0
    /\ fc_forecast = NoAnswer
    /\ aqi_forecast = NoAnswer
    /\ processed_forecast = <<>>
    /\ fc_raised = "none"

NewsIdle ==
    /\ news_pc = "idle"
    /\ sendgrid_key = FALSE
    /\ news_subscribers = <<>>
    /\ news_idx = 0
    /\ response = "none"
    /\ attempt_log = <<>>
    /\ other_calls = 0

Sessions == {"s1", "s2", "s3"}

SchedIdle ==
    /\ sched_running = FALSE
    /\ sched_jobs = 0
    /\ sched_pending = 0
    /\ sess_pc = [s \in Sessions |-> "idle"]
    /\ stops = 0
    /\ trigger_runs = 0

ExtIdle == WeekIdle /\ RecIdle /\ DbIdle /\ FcIdle /\ NewsIdle /\ SchedIdle

CurIdle ==
    /\ cur_pc = "idle"
    /\ result = InitialResult
    /\ weather_success = FALSE
    /\ respA = [status |-> "none", current |-> NoCurrentA]
    /\ respB = NoRespB
    /\ respC = [status |-> "none", has_list |-> FALSE, components |-> NoComponents]
    /\ after_a = InitialResult
    /\ attempted = {}
    /\ failed = {}

InitCur ==
    /\ cur_pc = "A"
    /\ api_key \in BOOLEAN
    /\ result = InitialResult
    /\ weather_success = FALSE
    /\ respA = [status |-> "none", current |-> NoCurrentA]
    /\ respB = NoRespB
    /\ respC = [status |-> "none", has_list |-> FALSE, components |-> NoComponents]
    /\ after_a = InitialResult
    /\ attempted = {}
    /\ failed = {}
    /\ components = NoComponents
    /\ aqi_value = None
    /\ HistIdle
    /\ ExtIdle

CallProviderA ==
    /\ cur_pc = "A"
    /\ \E rA \in RespASet :
         LET out == FetchA(result, rA)
         IN /\ respA' = rA
            /\ result' = out.result
            /\ after_a' = out.result
            /\ weather_success' = out.weather_success
            /\ failed' = IF out.failed THEN failed \cup {"A"} ELSE failed
            /\ cur_pc' = IF out.weather_success THEN "C" ELSE "B"
    /\ attempted' = attempted \cup {"A"}
    /\ UNCHANGED <<api_key, respB, respC, aqi_vars, hist_vars, ext_vars>>

CallProviderB ==
    /\ cur_pc = "B"
    /\ \E rB \in RespBSet :
         /\ api_key \/ rB = NoRespB
         /\ LET out == FetchB(result, rB, api_key)
            IN /\ respB' = rB
               /\ result' = out.result
               /\ failed' = IF out.failed THEN failed \cup {"B"} ELSE failed
    /\ attempted' = attempted \cup {"B"}
    /\ cur_pc' = "C"
    /\ UNCHANGED <<api_key, weather_success, respA, respC, after_a, aqi_vars, hist_vars, ext_vars>>

CallProviderC ==
    /\ cur_pc = "C"
    /\ \E rC \in RespCSet :
         /\ api_key \/ rC.status = "raise"
         /\ LET out == FetchC(result, rC, api_key)
            IN /\ respC' = rC
               /\ result' = out.result
               /\ failed' = IF out.failed THEN failed \cup {"C"} ELSE failed
    /\ attempted' = attempted \cup {"C"}
    /\ cur_pc' = "defaults"
    /\ UNCHANGED <<api_key, weather_success, respA, respB, after_a, aqi_vars, hist_vars, ext_vars>>

FillDefaultsAndReturn ==
    /\ cur_pc = "defaults"
    /\ result' = ApplyDefaults(result)
    /\ cur_pc' = "done"
    /\ UNCHANGED <<api_key, weather_success, respA, respB, respC, after_a,
                   attempted, failed, aqi_vars, hist_vars, ext_vars>>

NextCur ==
    \/ CallProviderA
    \/ CallProviderB
    \/ CallProviderC
    \/ FillDefaultsAndReturn

SpecCur == InitCur /\ [][NextCur]_vars

----------------------------------------------------------------------------
(* get_historical_data *)

\* hourly_temp_deviations, in tenths of a degree, hour 0 first
hourly_temp_deviations ==
    << -25, -30, -32, -35, -30, -25,
       -15, -5, 10, 25, 40, 50,
       55, 58, 55, 50, 40, 30,
       15, 0, -10, -15, -20, -22 >>

\* faulty variant: a jitter drawn from uniform(-1, 1)
TempJitterWide == << -10, 0, 10 >>

\* the values random.uniform(-0.5, 0.5) is sampled at (tenths of a degree)
TempJitter == << -5, 0, 5 >>
\* the values random.uniform(0.9, 1.1) is sampled at (hundredths)
AqiJitter == << 90, 100, 110 >>

\* faulty variant: the southern hemisphere keeps the northern calendar
EstimateTempNorthern(lat_, month_) ==
    LET abs_lat == IF lat_ < 0 THEN -lat_ ELSE lat_
    IN IF abs_lat < 235 THEN 280
       ELSE IF abs_lat < 450
       THEN IF month_ \in {12, 1, 2} THEN 50
            ELSE IF month_ \in {3, 4, 5} THEN 150
            ELSE IF month_ \in {6, 7, 8} THEN 250
            ELSE 180
       ELSE IF month_ \in {5, 6, 7, 8, 9} THEN 100 ELSE -100

\* lines 297-335: the estimate replacing an implausible temperature;
\* lat in tenths of a degree, month 1..12, result in tenths of a degree
EstimateTemp(lat_, month_) ==
    LET is_northern == lat_ > 0
        abs_lat == IF lat_ < 0 THEN -lat_ ELSE lat_
    IN IF abs_lat < 235 THEN 280
       ELSE IF abs_lat < 450
       THEN IF is_northern
            THEN IF month_ \in {12, 1, 2} THEN 50
                 ELSE IF month_ \in {3, 4, 5} THEN 150
                 ELSE IF month_ \in {6, 7, 8} THEN 250
                 ELSE 180
            ELSE IF month_ \in {12, 1, 2} THEN 250
                 ELSE IF month_ \in {3, 4, 5} THEN 180
                 ELSE IF month_ \in {6, 7, 8} THEN 50
                 ELSE 150
       ELSE IF is_northern
            THEN IF month_ \in {5, 6, 7, 8, 9} THEN 100 ELSE -100
            ELSE IF month_ \in {11, 12, 1, 2, 3} THEN 100 ELSE -100

\* lines 286-339: current_temp and current_aqi from the fetched conditions
BaseValues(cd, lat_, month_) ==
    IF cd.temperature = None
    THEN [current_temp |-> 220, current_aqi |-> 50]
    ELSE [current_temp |-> IF -500 <= cd.temperature /\ cd.temperature <= 500
                           THEN cd.temperature
                           ELSE EstimateTemp(lat_, month_),
          current_aqi |-> cd.aqi]

\* current_time.replace(minute=0, second=0, microsecond=0)
HourFloor(t) == t - (t % 60)

\* timestamp.hour
HourOfDay(t) == (t \div 60) % 24

AbsDiff(a, b) == IF a < b THEN b - a ELSE a - b

\* faulty variant: the window includes the points exactly 2 hours away
RECURSIVE ScanForecastInclusive(_, _, _)
ScanForecastInclusive(data, i, timestamp) ==
    IF i > Len(data) THEN [kind |-> "none", value |-> None]
    ELSE IF ~data[i].has_dt THEN [kind |-> "raise", value |-> None]
    ELSE IF AbsDiff(data[i].dt, timestamp) <= 120 /\ data[i].temp # None
    THEN [kind |-> "found", value |-> data[i].temp]
    ELSE ScanForecastInclusive(data, i + 1, timestamp)

\* lines 434-442: the first forecast point within 2 hours that carries a
\* temperature; reading 'dt' of a point that has none raises KeyError
RECURSIVE ScanForecast(_, _, _)
ScanForecast(data, i, timestamp) ==
    IF i > Len(data) THEN [kind |-> "none", value |-> None]
    ELSE IF ~data[i].has_dt THEN [kind |-> "raise", value |-> None]
    ELSE IF AbsDiff(data[i].dt, timestamp) < 120 /\ data[i].temp # None
    THEN [kind |-> "found", value |-> data[i].temp]
    ELSE ScanForecast(data, i + 1, timestamp)

\* lines 452-464: the first AQI point within 2 hours that carries
\* 'components' (run through the calculator) or a 1-5 index (times 50)
RECURSIVE ScanAqi(_, _, _)
ScanAqi(data, i, timestamp) ==
    IF i > Len(data) THEN [kind |-> "none", value |-> None]
    ELSE IF ~data[i].has_dt THEN [kind |-> "raise", value |-> None]
    ELSE IF AbsDiff(data[i].dt, timestamp) < 120 /\ data[i].kind = "components"
    THEN [kind |-> "found",
          value |-> calculate_aqi_from_pollutants(data[i].components)]
    ELSE IF AbsDiff(data[i].dt, timestamp) < 120 /\ data[i].kind = "main"
    THEN [kind |-> "found", value |-> data[i].main_aqi * 50]
    ELSE ScanAqi(data, i + 1, timestamp)

\* lines 469-478, in hundredths
AqiFactor(hour_of_day) ==
    IF 7 <= hour_of_day /\ hour_of_day <= 9 THEN 120
    ELSE IF 16 <= hour_of_day /\ hour_of_day <= 19 THEN 115
    ELSE IF 11 <= hour_of_day /\ hour_of_day <= 15 THEN 90
    ELSE IF 22 <= hour_of_day /\ hour_of_day <= 4 THEN 85
    ELSE 100

\* min(500, max(1, aqi)) on the series' scale of 1/10000
ClampAqi(aqi) ==
    IF aqi < 10000 THEN 10000 ELSE IF aqi > 5000000 THEN 5000000 ELSE aqi

\* lines 528-533, in tenths of a degree
FallbackTempFactor(hour_of_day) ==
    IF hour_of_day < 6 THEN -30
    ELSE IF hour_of_day < 14 THEN (hour_of_day - 6) * 5
    ELSE 40 - (hour_of_day - 14) * 5

\* lines 536-543, in hundredths
FallbackAqiFactor(hour_of_day) ==
    IF hour_of_day < 8 THEN 110
    ELSE IF hour_of_day < 17 THEN 90
    ELSE IF hour_of_day < 21 THEN 105
    ELSE 95

\* lines 520-551: the 24 entries built by the exception handler
FallbackSeries(current_time, cd) ==
    [h \in 1..24 |->
        LET hour_time == current_time - 60 * (24 - (h - 1))
        IN [date |-> hour_time,
            temperature |-> cd.temperature + FallbackTempFactor(HourOfDay(hour_time)),
            aqi |-> ClampAqi(cd.aqi * FallbackAqiFactor(HourOfDay(hour_time)) * 100),
            is_last_24h |-> TRUE,
            hour |-> HourOfDay(hour_time)]]

----------------------------------------------------------------------------
(* Inputs of get_historical_data *)

\* datetime.now(): 14:25 and 02:00 of the fourth day
NowSet == {5185, 4440}

\* <<lat, month>>: northern temperate in January, its southern mirror in
\* July, southern polar in July
HistPlaces == { <<400, 1>>, <<-400, 7>>, <<-600, 7>> }

\* the random draws of one call, by hour_offset: an index into TempJitter
\* and AqiJitter
RngStreams ==
    {[h \in 0..23 |-> IF h % 2 = 0 THEN a ELSE b] :
        a \in 1..3, b \in 1..3}

HistRespA ==
    {[status |-> "raise", current |-> NoCurrentA],
     [status |-> "ok", current |-> FullCurrentA],
     [status |-> "ok", current |-> [FullCurrentA EXCEPT !.temperature_2m = 612]]}

HistRespC ==
    {[status |-> "raise", has_list |-> FALSE, components |-> NoComponents],
     [status |-> "ok", has_list |-> TRUE, components |-> MkComponents(0, 0, 0)],
     [status |-> "ok", has_list |-> TRUE, components |-> MkComponents(100, 12100, 0)]}

\* a point of the forecast 'list'; temp None: it has no 'main' or no 'temp'
FcPoint(dt_, temp_) == [has_dt |-> TRUE, dt |-> dt_, temp |-> temp_]
FcMalformed == [has_dt |-> FALSE, dt |-> None, temp |-> None]

\* forecast answers: failure ("raise"), or the points of the 'list'
ForecastAnswers(ch) ==
    {[status |-> "raise", list |-> <<>>]}
    \cup
    {[status |-> "ok", list |-> l] :
        l \in { <<>>,
                <<FcPoint(ch - 180, 183)>>,
                <<FcPoint(ch - 180, None), FcPoint(ch - 150, 171)>>,
                <<FcPoint(ch - 90, 150), FcPoint(ch - 120, 160)>>,
                <<FcMalformed>>,
                <<FcPoint(ch - 1380, 183), FcMalformed>> }}

AqiPoint(dt_, kind_, comps_, idx_) ==
    [has_dt |-> TRUE, dt |-> dt_, kind |-> kind_, components |-> comps_,
     main_aqi |-> idx_]
AqiMalformed ==
    [has_dt |-> FALSE, dt |-> None, kind |-> "other", components |-> NoComponents,
     main_aqi |-> None]

\* answers of the current air-pollution call
AqiNowAnswers(ch) ==
    {[status |-> "raise", list |-> <<>>]}
    \cup
    {[status |-> "ok", list |-> l] :
        l \in { <<AqiPoint(ch - 300, "components", MkComponents(700, None, None), None)>>,
                <<AqiMalformed>> }}

\* answers of the air-pollution forecast call
AqiForecastAnswers(ch) ==
    {[status |-> "raise", list |-> <<>>]}
    \cup
    {[status |-> "ok", list |-> l] :
        l \in { <<AqiPoint(ch - 600, "main", NoComponents, 5)>>,
                <<AqiPoint(ch - 630, "main", NoComponents, 2),
                  AqiPoint(ch - 600, "components", MkComponents(700, None, None), None)>>,
                <<AqiPoint(ch - 600, "other", NoComponents, None),
                  AqiPoint(ch - 590, "components", MkComponents(0, 0, 0), None)>> }}

----------------------------------------------------------------------------
(* Specification of get_historical_data: one call per behaviour *)

InitHist ==
    /\ hist_pc = "current"
    /\ now \in NowSet
    /\ place \in HistPlaces
    /\ rng \in RngStreams
    /\ current_data = InitialResult
    /\ current_temp = None
    /\ current_aqi = None
    /\ forecast_data = <<>>
    /\ aqi_data = <<>>
    /\ hour_offset = 0
    /\ iter = NoIteration
    /\ all_data = <<>>
    /\ returned = <<>>
    /\ fetch_failed = {}
    /\ CurIdle
    /\ api_key \in BOOLEAN
    /\ components = NoComponents
    /\ aqi_value = None
    /\ ExtIdle

\* the answers the three providers can give to one get_current_weather_and_aqi
HistCurrentData ==
    { get_current_weather_and_aqi(rA, NoRespB, rC, api_key) :
        rA \in HistRespA,
        rC \in {r \in HistRespC : api_key \/ r.status = "raise"} }

\* lines 284-339
HistFetchCurrent ==
    /\ hist_pc = "current"
    /\ \E cd \in HistCurrentData :
         /\ current_data' = cd
         /\ current_temp' = BaseValues(cd, place[1], place[2]).current_temp
         /\ current_aqi' = BaseValues(cd, place[1], place[2]).current_aqi
    /\ hist_pc' = "forecast"
    /\ UNCHANGED <<now, place, rng, forecast_data, aqi_data, hour_offset, iter,
                   all_data, returned, fetch_failed,
                   aqi_vars, cur_vars, ext_vars>>

\* lines 350-369: a failure is caught and leaves forecast_data empty
HistFetchForecast ==
    /\ hist_pc = "forecast"
    /\ \E ans \in ForecastAnswers(HourFloor(now)) :
         /\ forecast_data' = IF api_key /\ ans.status = "ok" THEN ans.list
                             ELSE <<>>
         /\ fetch_failed' = IF api_key /\ ans.status = "raise"
                             THEN {"forecast"} ELSE {}
    /\ hist_pc' = "aqi"
    /\ UNCHANGED <<now, place, rng, current_data, current_temp, current_aqi,
                   aqi_data, hour_offset, iter, all_data, returned, aqi_vars,
                   cur_vars, ext_vars>>

\* lines 372-406: the forecast call is made only after the current call
\* succeeded, and a failure keeps what was already collected
HistFetchAqi ==
    /\ hist_pc = "aqi"
    /\ \E a1 \in AqiNowAnswers(HourFloor(now)),
          a2 \in AqiForecastAnswers(HourFloor(now)) :
         /\ aqi_data' = IF ~api_key \/ a1.status = "raise" THEN <<>>
                        ELSE IF a2.status = "raise" THEN a1.list
                        ELSE a1.list \o a2.list
         /\ fetch_failed' = fetch_failed \cup
                (IF ~api_key THEN {}
                 ELSE IF a1.status = "raise" THEN {"aqi_now"}
                 ELSE IF a2.status = "raise" THEN {"aqi_forecast"}
                 ELSE {})
    /\ hist_pc' = "loop"
    /\ UNCHANGED <<now, place, rng, current_data, current_temp, current_aqi,
                   forecast_data, hour_offset, iter, all_data, returned,
                   aqi_vars, cur_vars, ext_vars>>

\* lines 421-494: one iteration of the loop over hour_offset
HistHour ==
    /\ hist_pc = "loop"
    /\ hour_offset < 24
    /\ LET timestamp == HourFloor(now) - 60 * (24 - hour_offset)
           hour_of_day == HourOfDay(timestamp)
           fc == ScanForecast(forecast_data, 1, timestamp)
           aq == ScanAqi(aqi_data, 1, timestamp)
           temp == IF fc.kind = "found" THEN fc.value
                   ELSE current_temp + hourly_temp_deviations[hour_of_day + 1]
                        + TempJitter[rng[hour_offset]]
           aqi_factor == AqiFactor(hour_of_day)
           random_factor == AqiJitter[rng[hour_offset]]
           aqi == IF aq.kind = "found" THEN aq.value * 10000
                  ELSE current_aqi * aqi_factor * random_factor
       IN IF fc.kind = "raise" \/ aq.kind = "raise"
          THEN /\ hist_pc' = "except"
               /\ UNCHANGED <<hour_offset, iter, all_data>>
          ELSE /\ all_data' = Append(all_data,
                                 [date |-> timestamp, temperature |-> temp,
                                  aqi |-> ClampAqi(aqi), is_last_24h |-> TRUE,
                                  hour |-> hour_of_day])
               /\ iter' = [hour_of_day |-> hour_of_day,
                           temp_found |-> fc.kind = "found",
                           aqi_found |-> aq.kind = "found",
                           aqi_factor |-> IF aq.kind = "found" THEN None ELSE aqi_factor,
                           random_factor |-> IF aq.kind = "found" THEN None
                                             ELSE random_factor,
                           aqi |-> aqi]
               /\ hour_offset' = hour_offset + 1
               /\ hist_pc' = "loop"
    /\ UNCHANGED <<now, place, rng, current_data, current_temp, current_aqi,
                   forecast_data, aqi_data, returned, fetch_failed,
                   aqi_vars, cur_vars, ext_vars>>

\* lines 499-507: the trailing current entry and the return
HistReturn ==
    /\ hist_pc = "loop"
    /\ hour_offset = 24
    /\ all_data' = Append(all_data,
                      [date |-> now, temperature |-> current_temp,
                       aqi |-> current_aqi * 10000, is_last_24h |-> FALSE])
    /\ returned' = all_data'
    /\ hist_pc' = "done"
    /\ UNCHANGED <<now, place, rng, current_data, current_temp, current_aqi,
                   forecast_data, aqi_data, hour_offset, iter, fetch_failed,
                   aqi_vars, cur_vars, ext_vars>>

\* lines 509-553: the exception handler fetches the current conditions again
\* and returns its own 24 entries
HistExcept ==
    /\ hist_pc = "except"
    /\ \E cd \in HistCurrentData :
         /\ current_data' = cd
         /\ current_temp' = cd.temperature
         /\ current_aqi' = cd.aqi
         /\ returned' = FallbackSeries(now, cd)
    /\ hist_pc' = "done_fallback"
    /\ UNCHANGED <<now, place, rng, forecast_data, aqi_data, hour_offset, iter,
                   all_data, fetch_failed,
                   aqi_vars, cur_vars, ext_vars>>

NextHist ==
    \/ HistFetchCurrent
    \/ HistFetchForecast
    \/ HistFetchAqi
    \/ HistHour
    \/ HistReturn
    \/ HistExcept

SpecHist == InitHist /\ [][NextHist]_vars

----------------------------------------------------------------------------
(* Specification of the calculator: one call per behaviour *)

InitAqi ==
    /\ components \in ComponentsSet
    /\ aqi_value = None
    /\ api_key = TRUE
    /\ CurIdle
    /\ HistIdle
    /\ ExtIdle

Calculate ==
    /\ aqi_value = None
    /\ aqi_value' = calculate_aqi_from_pollutants(components)
    /\ UNCHANGED <<components, cur_vars, hist_vars, ext_vars>>

NextAqi == Calculate

SpecAqi == InitAqi /\ [][NextAqi]_vars

----------------------------------------------------------------------------
(* get_last_week_data.  A date is a day number: the isoformat strings the  *)
(* code sorts and compares order as the day numbers do.  aqi_avg is in     *)
(* 1/100 index point.                                                      *)

\* the values the random.uniform calls are sampled at
WeekJitter ==
    [fill_aqi |-> << -1500, 0, 1500 >>,  \* uniform(-15, 15), lines 676, 709
     day_temp |-> << -50, 0, 50 >>,      \* uniform(-5, 5), line 701
     spread |-> << 30, 50, 70 >>,        \* uniform(3, 7), lines 702-703
     humidity |-> << -100, 0, 100 >>,    \* uniform(-10, 10), lines 706, 735
     fb_temp |-> << -30, 0, 30 >>,       \* uniform(-3, 3), lines 732-734
     fb_aqi |-> << -1000, 0, 1000 >>]    \* uniform(-10, 10), line 736

\* the n-th draw of the call: the stream repeats week_rng
Draw(n) == week_rng[((n - 1) % 3) + 1]

\* position of a key in the dictionary, 0 if absent
DictIndex(d, date_key) ==
    IF \E k \in 1..Len(d) : d[k].date = date_key
    THEN CHOOSE k \in 1..Len(d) : d[k].date = date_key
    ELSE 0

ArrayAt(a, i) == IF i <= Len(a) THEN a[i] ELSE None

\* lines 605-615: one dictionary entry per returned day, later days with
\* the same key replacing the value in place
RECURSIVE BuildDaily(_, _, _)
BuildDaily(daily, i, d) ==
    IF i > Len(daily.time) THEN d
    ELSE LET item == [date |-> daily.time[i],
                      temp_min |-> ArrayAt(daily.temperature_2m_min, i),
                      temp_max |-> ArrayAt(daily.temperature_2m_max, i),
                      temp_avg |-> ArrayAt(daily.temperature_2m_mean, i),
                      humidity_avg |-> ArrayAt(daily.relative_humidity_2m_mean, i),
                      aqi_avg |-> None]
             k == DictIndex(d, daily.time[i])
         IN BuildDaily(daily, i + 1,
                       IF k = 0 THEN Append(d, item) ELSE [d EXCEPT ![k] = item])

\* lines 645-660: AQI values grouped by date; an item without 'dt' raises
RECURSIVE GroupAqi(_, _, _)
GroupAqi(list, i, by_date) ==
    IF i > Len(list) THEN [kind |-> "ok", by_date |-> by_date]
    ELSE IF ~list[i].has_dt THEN [kind |-> "raise", by_date |-> by_date]
    ELSE LET k == DictIndex(by_date, list[i].date)
             grown == IF k = 0
                      THEN Append(by_date, [date |-> list[i].date, values |-> <<>>])
                      ELSE by_date
             at == IF k = 0 THEN Len(grown) ELSE k
             added == IF list[i].kind = "components"
                      THEN <<calculate_aqi_from_pollutants(list[i].components)>>
                      ELSE IF list[i].kind = "main" THEN <<list[i].aqi * 50>>
                      ELSE <<>>
         IN GroupAqi(list, i + 1,
                     [grown EXCEPT ![at].values = grown[at].values \o added])

RECURSIVE SumSeq(_)
SumSeq(s) == IF s = <<>> THEN 0 ELSE Head(s) + SumSeq(Tail(s))

\* lines 663-665: sum(aqi_values) / len(aqi_values), in hundredths
RECURSIVE ApplyAqi(_, _, _)
ApplyAqi(d, by_date, i) ==
    IF i > Len(by_date) THEN d
    ELSE LET k == DictIndex(d, by_date[i].date)
             aqi_values == by_date[i].values
         IN ApplyAqi(IF k # 0 /\ aqi_values # <<>>
                     THEN [d EXCEPT ![k].aqi_avg =
                               (SumSeq(aqi_values) * 100) \div Len(aqi_values)]
                     ELSE d,
                     by_date, i + 1)

\* max(10, min(300, x)) in hundredths
ClampWeekAqi(x) ==
    IF x < 1000 THEN 1000 ELSE IF x > 30000 THEN 30000 ELSE x

\* max(10, min(95, x)) in tenths
ClampWeekHumidity(x) ==
    IF x < 100 THEN 100 ELSE IF x > 950 THEN 950 ELSE x

\* lines 673-676: n draws have been made so far
RECURSIVE FillMissingAqi(_, _, _, _)
FillMissingAqi(d, current_aqi_, k, n) ==
    IF k > Len(d) THEN d
    ELSE IF d[k].aqi_avg = None
    THEN FillMissingAqi(
            [d EXCEPT ![k].aqi_avg =
                ClampWeekAqi(current_aqi_ * 100 + WeekJitter.fill_aqi[Draw(n + 1)])],
            current_aqi_, k + 1, n + 1)
    ELSE FillMissingAqi(d, current_aqi_, k + 1, n)

\* lines 683-718: the seven days before today, oldest first, five draws each
FabricatedWeek(today, cd) ==
    [i \in 1..7 |->
        LET n == 5 * (i - 1)
            day_temp == cd.temperature + WeekJitter.day_temp[Draw(n + 1)]
        IN [date |-> today - 8 + i,
            temp_min |-> day_temp - WeekJitter.spread[Draw(n + 2)],
            temp_max |-> day_temp + WeekJitter.spread[Draw(n + 3)],
            temp_avg |-> day_temp,
            humidity_avg |->
                ClampWeekHumidity(cd.humidity + WeekJitter.humidity[Draw(n + 4)]),
            aqi_avg |->
                ClampWeekAqi(cd.aqi * 100 + WeekJitter.fill_aqi[Draw(n + 5)])]]

\* line 721: list.sort(key=date), a stable sort
RECURSIVE InsertByDate(_, _)
InsertByDate(sorted, x) ==
    IF sorted = <<>> THEN <<x>>
    ELSE IF sorted[Len(sorted)].date <= x.date THEN Append(sorted, x)
    ELSE Append(InsertByDate(SubSeq(sorted, 1, Len(sorted) - 1), x),
                sorted[Len(sorted)])

RECURSIVE SortByDate(_)
SortByDate(s) ==
    IF s = <<>> THEN <<>>
    ELSE InsertByDate(SortByDate(SubSeq(s, 1, Len(s) - 1)), s[Len(s)])

\* lines 728-739: the list built by the outer exception handler,
\* for i in range(1, 8)
FallbackWeek(today) ==
    [i \in 1..7 |->
        LET n == 5 * (i - 1)
        IN [date |-> today - i,
            temp_min |-> 150 + WeekJitter.fb_temp[Draw(n + 1)],
            temp_max |-> 250 + WeekJitter.fb_temp[Draw(n + 2)],
            temp_avg |-> 200 + WeekJitter.fb_temp[Draw(n + 3)],
            humidity_avg |-> 500 + WeekJitter.humidity[Draw(n + 4)],
            aqi_avg |-> 5000 + WeekJitter.fb_aqi[Draw(n + 5)]]]

----------------------------------------------------------------------------
(* Inputs of get_last_week_data *)

WeekDates == {20025, 20391}

WeekRngStreams == [1..3 -> 1..3]

\* the days from..to, ascending
DayRange(from, to) == [i \in 1..(to - from + 1) |-> from + i - 1]

Reversed(s) == [i \in 1..Len(s) |-> s[Len(s) + 1 - i]]

\* the lists of days the archive answers with: the requested window, fewer
\* days, one day more (today), another week, none, the window newest first,
\* and a repeated day
TimeLists(today) ==
    {DayRange(today - 7, today - 1), DayRange(today - 7, today - 3),
     DayRange(today - 7, today), DayRange(today - 14, today - 8), <<>>,
     Reversed(DayRange(today - 7, today - 1)),
     <<today - 2, today - 5, today - 2>>}

\* an answer with its value arrays n long
ArchiveDaily(time, n) ==
    [status |-> "ok", has_daily |-> TRUE, time |-> time,
     temperature_2m_min |-> [i \in 1..n |-> 100 + 10 * i],
     temperature_2m_max |-> [i \in 1..n |-> 200 + 10 * i],
     temperature_2m_mean |-> [i \in 1..n |-> 150 + 10 * i],
     relative_humidity_2m_mean |-> [i \in 1..n |-> 600 - 10 * i]]

ArchiveAnswers(today) ==
    {[NoArchive EXCEPT !.status = "raise"], [NoArchive EXCEPT !.status = "ok"]}
    \cup {ArchiveDaily(t, n) : t \in TimeLists(today), n \in {0, 7}}

AqiItem(date, kind, c, aqi) ==
    [has_dt |-> TRUE, date |-> date, kind |-> kind,
     components |-> IF kind = "components" THEN MkSingle("pm2_5", c)
                    ELSE NoComponents,
     aqi |-> aqi]

\* the lists the AQI history answers with; no day has more than two values,
\* so that the averages are exact in hundredths
AqiHistoryLists(today) ==
    {<<>>,
     <<AqiItem(today - 7, "components", 700, None), AqiItem(today - 7, "main", None, 3),
       AqiItem(today - 1, "main", None, 2)>>,
     <<AqiItem(today - 1, "main", None, 2),
       [AqiItem(today - 2, "main", None, 2) EXCEPT !.has_dt = FALSE]>>,
     <<AqiItem(today, "main", None, 5), AqiItem(today - 20, "components", 241, None),
       AqiItem(today - 3, "none", None, None)>>}

AqiHistoryAnswers(today) ==
    {[NoAqiHistory EXCEPT !.status = "raise"], [NoAqiHistory EXCEPT !.status = "ok"]}
    \cup {[status |-> "ok", has_list |-> TRUE, list |-> l] :
            l \in AqiHistoryLists(today)}

----------------------------------------------------------------------------
(* Specification of get_last_week_data: one call per behaviour *)

InitWeek ==
    /\ week_pc = "archive"
    /\ current_date \in WeekDates
    /\ week_rng \in WeekRngStreams
    /\ weather_data = NoArchive
    /\ aqi_history = NoAqiHistory
    /\ daily_bound = FALSE
    /\ daily_weather = <<>>
    /\ week_current = InitialResult
    /\ week_result = <<>>
    /\ api_key \in BOOLEAN
    /\ CurIdle
    /\ HistIdle
    /\ AqiIdle
    /\ RecIdle
    /\ DbIdle
    /\ FcIdle
    /\ NewsIdle
    /\ SchedIdle

\* lines 591-618: daily_weather is assigned when the answer has daily data
\* and when the call fails, and on no other path
WeekFetchArchive ==
    /\ week_pc = "archive"
    /\ \E ans \in ArchiveAnswers(current_date) :
         /\ weather_data' = ans
         /\ IF ans.status = "raise"
            THEN daily_bound' = TRUE /\ daily_weather' = <<>>
            ELSE IF ans.has_daily
            THEN daily_bound' = TRUE /\ daily_weather' = BuildDaily(ans, 1, <<>>)
            ELSE UNCHANGED <<daily_bound, daily_weather>>
    /\ week_pc' = "aqi"
    /\ UNCHANGED <<current_date, week_rng, aqi_history, week_current,
                   week_result, week_rest>>

\* lines 621-667: any failure, the unbound daily_weather included, is caught
\* and leaves daily_weather as it was
WeekFetchAqi ==
    /\ week_pc = "aqi"
    /\ IF ~api_key
       THEN UNCHANGED <<aqi_history, daily_weather>>
       ELSE \E ans \in AqiHistoryAnswers(current_date) :
              /\ aqi_history' = ans
              /\ LET grouped == GroupAqi(ans.list, 1, <<>>)
                 IN daily_weather' =
                      IF ans.status = "ok" /\ ans.has_list /\ grouped.kind = "ok"
                         /\ daily_bound
                      THEN ApplyAqi(daily_weather, grouped.by_date, 1)
                      ELSE daily_weather
    /\ week_pc' = "current"
    /\ UNCHANGED <<current_date, week_rng, weather_data, daily_bound,
                   week_current, week_result, week_rest>>

\* lines 670-723: reading the unbound daily_weather at line 673 raises
WeekFill ==
    /\ week_pc = "current"
    /\ \E cd \in HistCurrentData :
         /\ week_current' = cd
         /\ IF ~daily_bound
            THEN /\ week_pc' = "except"
                 /\ UNCHANGED <<daily_weather, week_result>>
            ELSE LET filled == FillMissingAqi(daily_weather, cd.aqi, 1, 0)
                     result_ == IF filled = <<>>
                                THEN FabricatedWeek(current_date, cd)
                                ELSE filled
                 IN /\ daily_weather' = filled
                    /\ week_result' = SortByDate(result_)
                    /\ week_pc' = "done"
    /\ UNCHANGED <<current_date, week_rng, weather_data, aqi_history,
                   daily_bound, week_rest>>

\* lines 725-739
WeekExcept ==
    /\ week_pc = "except"
    /\ week_result' = FallbackWeek(current_date)
    /\ week_pc' = "done_fallback"
    /\ UNCHANGED <<current_date, week_rng, weather_data, aqi_history,
                   daily_bound, daily_weather, week_current, week_rest>>

NextWeek ==
    \/ WeekFetchArchive
    \/ WeekFetchAqi
    \/ WeekFill
    \/ WeekExcept

SpecWeek == InitWeek /\ [][NextWeek]_vars

----------------------------------------------------------------------------
(* get_health_recommendations (src/openai_helper.py).  Temperature and AQI *)
(* are in tenths.  A text is the sequence of its section headings; the     *)
(* value returned is [kind, text] with kind "none" for Python None.        *)

TempCategories ==
    {"extreme_heat", "high_heat", "warm", "moderate", "cool", "cold",
     "extreme_cold"}

AqiCategories ==
    {"good", "moderate", "unhealthy_sensitive", "unhealthy", "very_unhealthy",
     "hazardous"}

\* faulty variant: strict comparisons
TempCategoryStrict(t) ==
    IF t > 350 THEN "extreme_heat"
    ELSE IF t > 300 THEN "high_heat"
    ELSE IF t > 250 THEN "warm"
    ELSE IF t > 150 THEN "moderate"
    ELSE IF t > 50 THEN "cool"
    ELSE IF t > -50 THEN "cold"
    ELSE "extreme_cold"

\* lines 108-122
TempCategory(t) ==
    IF t >= 350 THEN "extreme_heat"
    ELSE IF t >= 300 THEN "high_heat"
    ELSE IF t >= 250 THEN "warm"
    ELSE IF t >= 150 THEN "moderate"
    ELSE IF t >= 50 THEN "cool"
    ELSE IF t >= -50 THEN "cold"
    ELSE "extreme_cold"

\* lines 124-136
AqiCategory(a) ==
    IF a <= 500 THEN "good"
    ELSE IF a <= 1000 THEN "moderate"
    ELSE IF a <= 1500 THEN "unhealthy_sensitive"
    ELSE IF a <= 2000 THEN "unhealthy"
    ELSE IF a <= 3000 THEN "very_unhealthy"
    ELSE "hazardous"

\* lines 139-203: the heading of each entry
temp_recommendations ==
    [c \in TempCategories |->
        CASE c = "extreme_heat" -> "## Temperature Precautions (Extreme Heat)"
          [] c = "high_heat" -> "## Temperature Precautions (High Heat)"
          [] c = "warm" -> "## Temperature Precautions (Warm Weather)"
          [] c = "moderate" -> "## Temperature Precautions (Moderate Weather)"
          [] c = "cool" -> "## Temperature Precautions (Cool Weather)"
          [] c = "cold" -> "## Temperature Precautions (Cold Weather)"
          [] c = "extreme_cold" -> "## Temperature Precautions (Extreme Cold)"]

\* lines 205-258: the heading of each entry
aqi_recommendations ==
    [c \in AqiCategories |->
        CASE c = "good" -> "## Air Quality Recommendations (Good)"
          [] c = "moderate" -> "## Air Quality Recommendations (Moderate)"
          [] c = "unhealthy_sensitive" ->
                "## Air Quality Recommendations (Unhealthy for Sensitive Groups)"
          [] c = "unhealthy" -> "## Air Quality Recommendations (Unhealthy)"
          [] c = "very_unhealthy" -> "## Air Quality Recommendations (Very Unhealthy)"
          [] c = "hazardous" -> "## Air Quality Recommendations (Hazardous)"]

\* lines 94-280
generate_rule_based_recommendations(t, a) ==
    [kind |-> "str",
     text |-> << "# Health Recommendations for",
                 temp_recommendations[TempCategory(t)],
                 aqi_recommendations[AqiCategory(a)],
                 "## General Health Recommendations" >>]

\* faulty variant: one retry more
max_retries_more == 2 + 1

\* line 62
max_retries == 2

\* what response.choices[0].message.content can be
LlmText == [kind |-> "str", text |-> << "## Advice of the model" >>]
LlmEmpty == [kind |-> "str", text |-> <<>>]
LlmNull == [kind |-> "none", text |-> <<>>]

\* one call of client.chat.completions.create: it raises, it answers with
\* no choice (the indexing at line 80 raises), or it answers with a content
LlmOutcomes ==
    {[status |-> "raise", content |-> LlmNull],
     [status |-> "no_choice", content |-> LlmNull],
     [status |-> "ok", content |-> LlmText],
     [status |-> "ok", content |-> LlmEmpty],
     [status |-> "ok", content |-> LlmNull]}

----------------------------------------------------------------------------
(* Inputs of get_health_recommendations *)

TempThresholds == {350, 300, 250, 150, 50, -50}

AqiThresholds == {500, 1000, 1500, 2000, 3000}

TempInputs ==
    {None, 400, 220} \cup {b + d : b \in TempThresholds, d \in {-1, 0, 1}}

AqiInputs ==
    {None, 0, 2500} \cup {b + d : b \in AqiThresholds, d \in {-1, 0, 1}}

----------------------------------------------------------------------------
(* Specification of get_health_recommendations: one call per behaviour *)

InitRec ==
    /\ rec_pc = "start"
    /\ temperature_c \in TempInputs
    /\ rec_aqi \in AqiInputs
    /\ client \in BOOLEAN
    /\ retries = 0
    /\ llm_log = <<>>
    /\ rec_source = "none"
    /\ recommendations = NoText
    /\ api_key = TRUE
    /\ AqiIdle
    /\ CurIdle
    /\ HistIdle
    /\ WeekIdle
    /\ DbIdle
    /\ FcIdle
    /\ NewsIdle
    /\ SchedIdle

\* lines 31-35, 38, 60-63: the defaults, then the LLM branch or the fallback
RecStart ==
    /\ rec_pc = "start"
    /\ temperature_c' = IF temperature_c = None THEN 220 ELSE temperature_c
    /\ rec_aqi' = IF rec_aqi = None THEN 500 ELSE rec_aqi
    /\ rec_pc' = IF client THEN "llm" ELSE "fallback"
    /\ UNCHANGED <<client, retries, llm_log, rec_source, recommendations,
                   rec_rest>>

\* lines 65-88: one turn of the retry loop
RecCallLlm ==
    /\ rec_pc = "llm"
    /\ retries <= max_retries
    /\ \E out \in LlmOutcomes :
         /\ llm_log' = Append(llm_log, out)
         /\ IF out.status = "ok"
            THEN /\ recommendations' = out.content
                 /\ rec_source' = "llm"
                 /\ rec_pc' = "done"
                 /\ UNCHANGED retries
            ELSE /\ retries' = retries + 1
                 /\ rec_pc' = IF retries' > max_retries THEN "fallback" ELSE "llm"
                 /\ UNCHANGED <<recommendations, rec_source>>
    /\ UNCHANGED <<temperature_c, rec_aqi, client, rec_rest>>

\* line 92
RecFallback ==
    /\ rec_pc = "fallback"
    /\ recommendations' = generate_rule_based_recommendations(temperature_c, rec_aqi)
    /\ rec_source' = "rules"
    /\ rec_pc' = "done"
    /\ UNCHANGED <<temperature_c, rec_aqi, client, retries, llm_log, rec_rest>>

NextRec ==
    \/ RecStart
    \/ RecCallLlm
    \/ RecFallback

SpecRec == InitRec /\ [][NextRec]_vars

\* every step of the call is taken: the code has no blocking operation
\* other than a one-second sleep
SpecRecFair == SpecRec /\ WF_vars(NextRec)

----------------------------------------------------------------------------
(* The subscriber store (src/database.py).  The table is the set of its    *)
(* rows; a datetime is the number of calls begun when it was taken.  The   *)
(* sessions share the SQLite file and hold no lock between two statements: *)
(* a call is the attempts of get_db with a sleep after each failed one,    *)
(* then its SELECT, then the statement its commit flushes, and the         *)
(* statements of another session may fall in between any two of them.      *)

\* calls of the store in one behaviour
MaxCalls == 3

\* what a dictionary result holds; the counts are None unless counted
Result(success, message) ==
    [success |-> success, message |-> message,
     total |-> None, active |-> None, inactive |-> None]

Matching(tbl, email) == {r \in tbl : r.email = email}

\* query(...).filter(Subscriber.email == email).first()
First(tbl, email) ==
    CHOOSE r \in Matching(tbl, email) : \A q \in Matching(tbl, email) : r.id <= q.id

\* the rows an UPDATE or DELETE ... WHERE subscribers.id = ? matches
WithId(tbl, id) == {r \in tbl : r.id = id}

\* line 41: an INTEGER PRIMARY KEY of SQLite without AUTOINCREMENT; an
\* inserted row gets the largest id of the table plus one, so the id of a
\* deleted last row is given again
NextRowId(tbl) ==
    IF tbl = {} THEN 1
    ELSE (CHOOSE r \in tbl : \A q \in tbl : q.id <= r.id).id + 1

\* line 86
max_attempts == 3

\* the statement a call sends first: the lookup or the count, and for
\* clear_all_subscribers the DELETE of line 231
FirstStatement(op) ==
    IF op = "clear_all_subscribers" THEN "write" ELSE "select"

\* lines 91-116, one pass of the loop in call c.  ok: SessionLocal() and
\* SELECT 1 succeed, and the session is returned (the local attempt ends
\* with the function).  Otherwise attempt is counted; below max_attempts
\* the function sleeps one second before the next pass, and at
\* max_attempts it leaves the loop and raises (line 116).
get_db(c, ok) ==
    IF ok
    THEN [c EXCEPT !.pc = FirstStatement(c.op), !.attempt = 0]
    ELSE IF c.attempt + 1 < max_attempts
    THEN [c EXCEPT !.pc = "sleep", !.attempt = c.attempt + 1]
    ELSE [c EXCEPT !.pc = "raised", !.attempt = c.attempt + 1]

\* the call has a statement to send
InStatement(c) == c.pc \in {"select", "count2", "write"}

\* the call is between its first line and its return
Running(c) == c.pc = "sleep" \/ InStatement(c)

\* the call goes on to its commit with the row its SELECT loaded
Loaded(tbl, c, r) ==
    [subscribers |-> tbl, call |-> [c EXCEPT !.pc = "write", !.row = r]]

\* the call returns; the loaded object ends with the session (db.close()
\* of the finally clause)
Finished(tbl, c, res) ==
    [subscribers |-> tbl,
     call |-> [c EXCEPT !.pc = "returned", !.result = res,
                        !.row = NoRow, !.stamp = None]]

\* a statement or the commit raised: the except clause rolls back and
\* returns the error result
Failed(tbl, c, res) ==
    [subscribers |-> tbl,
     call |-> [c EXCEPT !.pc = "returned", !.fault = TRUE, !.result = res,
                        !.row = NoRow, !.stamp = None]]

\* the value the UPDATE leaves in a column: the flush writes the
\* attributes whose assigned value differs from the loaded one, and leaves
\* the other columns as they are in the table
Flushed(loaded, assigned, stored) ==
    IF assigned # loaded THEN assigned ELSE stored

\* lines 136-144: Subscriber(...); subscribed_at and is_active take their
\* defaults of lines 44-45
NewSubscriber(id, clock, name, email, loc) ==
    [id |-> id, name |-> name, email |-> email, subscribed_at |-> clock,
     is_active |-> TRUE, location_city |-> loc.city,
     location_state |-> loc.state, location_country |-> loc.country,
     last_email_sent |-> None]

\* faulty variant: reactivation keeps the old name and location
add_subscriber_keep(tbl, clock, c, fault) ==
    IF fault
    THEN Failed(tbl, c, Result(FALSE, "Error adding subscriber"))
    ELSE IF c.pc = "select"
    THEN IF Matching(tbl, c.email) # {}
         THEN LET existing == First(tbl, c.email)
              IN IF ~existing.is_active
                 THEN Loaded(tbl, c, existing)
                 ELSE Finished(tbl, c, Result(FALSE, "Email already subscribed"))
         ELSE Loaded(tbl, c, NoRow)
    ELSE IF c.row # NoRow
    THEN IF WithId(tbl, c.row.id) = {}
         THEN Failed(tbl, c, Result(FALSE, "Error adding subscriber"))
         ELSE Finished({IF r.id = c.row.id
                        THEN [r EXCEPT !.is_active = TRUE] ELSE r : r \in tbl},
                       c, Result(TRUE, "Subscription reactivated successfully!"))
    ELSE IF Matching(tbl, c.email) # {}
    THEN Failed(tbl, c, Result(FALSE, "Error adding subscriber"))
    ELSE Finished(tbl \cup {NewSubscriber(NextRowId(tbl), clock, c.name,
                                          c.email, c.place)},
                  c, Result(TRUE, "Subscribed successfully!"))

\* faulty variant: the lookup is skipped and the active duplicate replaced
add_subscriber_replace(tbl, clock, c, fault) ==
    IF fault
    THEN Failed(tbl, c, Result(FALSE, "Error adding subscriber"))
    ELSE IF c.pc = "select"
    THEN Loaded(tbl, c, NoRow)
    ELSE Finished((tbl \ Matching(tbl, c.email))
                  \cup {NewSubscriber(NextRowId(tbl), clock, c.name,
                                      c.email, c.place)},
                  c, Result(TRUE, "Subscribed successfully!"))

\* lines 121-151, one statement of the call c after get_db returned a
\* session.  At "select" the lookup of line 124; an active row ends the
\* call at line 134.  At "write" the commit of line 132 or 146: the UPDATE
\* of the loaded row, by its id, which raises when no row has that id, or
\* the INSERT, which raises when the table holds the email by then (the
\* unique constraint of line 43).  fault: the statement raises for a
\* reason of the database.
add_subscriber(tbl, clock, c, fault) ==
    IF fault
    THEN Failed(tbl, c, Result(FALSE, "Error adding subscriber"))
    ELSE IF c.pc = "select"
    THEN IF Matching(tbl, c.email) # {}
         THEN LET existing == First(tbl, c.email)
              IN IF ~existing.is_active
                 THEN Loaded(tbl, c, existing)
                 ELSE Finished(tbl, c, Result(FALSE, "Email already subscribed"))
         ELSE Loaded(tbl, c, NoRow)
    ELSE IF c.row # NoRow
    THEN IF WithId(tbl, c.row.id) = {}
         THEN Failed(tbl, c, Result(FALSE, "Error adding subscriber"))
         ELSE Finished(
                {IF r.id = c.row.id
                 THEN [r EXCEPT
                         !.is_active = Flushed(c.row.is_active, TRUE, r.is_active),
                         !.name = Flushed(c.row.name, c.name, r.name),
                         !.location_city =
                            Flushed(c.row.location_city, c.place.city,
                                    r.location_city),
                         !.location_state =
                            Flushed(c.row.location_state, c.place.state,
                                    r.location_state),
                         !.location_country =
                            Flushed(c.row.location_country, c.place.country,
                                    r.location_country)]
                 ELSE r : r \in tbl},
                c, Result(TRUE, "Subscription reactivated successfully!"))
    ELSE IF Matching(tbl, c.email) # {}
    THEN Failed(tbl, c, Result(FALSE, "Error adding subscriber"))
    ELSE Finished(tbl \cup {NewSubscriber(NextRowId(tbl), clock, c.name,
                                          c.email, c.place)},
                  c, Result(TRUE, "Subscribed successfully!"))

\* faulty variant: the row is removed
unsubscribe_hard(tbl, clock, c, fault) ==
    IF fault
    THEN Failed(tbl, c, Result(FALSE, "Error unsubscribing"))
    ELSE IF c.pc = "select"
    THEN IF Matching(tbl, c.email) # {}
         THEN Loaded(tbl, c, First(tbl, c.email))
         ELSE Finished(tbl, c, Result(FALSE, "Email not found"))
    ELSE Finished(tbl \ WithId(tbl, c.row.id), c,
                  Result(TRUE, "Unsubscribed successfully"))

\* lines 165-176.  At "write" the commit of line 169: the UPDATE of
\* is_active by the loaded row's id when the loaded row was active, and no
\* statement when it was inactive already.
unsubscribe(tbl, clock, c, fault) ==
    IF fault
    THEN Failed(tbl, c, Result(FALSE, "Error unsubscribing"))
    ELSE IF c.pc = "select"
    THEN IF Matching(tbl, c.email) # {}
         THEN Loaded(tbl, c, First(tbl, c.email))
         ELSE Finished(tbl, c, Result(FALSE, "Email not found"))
    ELSE IF ~c.row.is_active
    THEN Finished(tbl, c, Result(TRUE, "Unsubscribed successfully"))
    ELSE IF WithId(tbl, c.row.id) = {}
    THEN Failed(tbl, c, Result(FALSE, "Error unsubscribing"))
    ELSE Finished({IF r.id = c.row.id
                   THEN [r EXCEPT !.is_active = FALSE] ELSE r : r \in tbl},
                  c, Result(TRUE, "Unsubscribed successfully"))

\* lines 181-192: the function returns a bool, held in success.  At
\* "select" the lookup of line 183 and, for a row found, the assignment of
\* line 184: datetime.utcnow() is taken there.  At "write" the commit of
\* line 185: the UPDATE of last_email_sent, to the time taken, by the
\* loaded row's id.
update_last_email_sent(tbl, clock, c, fault) ==
    IF fault
    THEN Failed(tbl, c, Result(FALSE, "False"))
    ELSE IF c.pc = "select"
    THEN IF Matching(tbl, c.email) # {}
         THEN [subscribers |-> tbl,
               call |-> [c EXCEPT !.pc = "write", !.row = First(tbl, c.email),
                                  !.stamp = clock]]
         ELSE Finished(tbl, c, Result(FALSE, "False"))
    ELSE IF WithId(tbl, c.row.id) = {}
    THEN Failed(tbl, c, Result(FALSE, "False"))
    ELSE Finished({IF r.id = c.row.id
                   THEN [r EXCEPT !.last_email_sent = c.stamp] ELSE r : r \in tbl},
                  c, Result(TRUE, "True"))

\* lines 197-208.  At "write" the commit of line 201: the DELETE by the
\* loaded row's id; a DELETE that matches no row raises nothing.
delete_subscriber(tbl, clock, c, fault) ==
    IF fault
    THEN Failed(tbl, c, Result(FALSE, "Error deleting subscriber"))
    ELSE IF c.pc = "select"
    THEN IF Matching(tbl, c.email) # {}
         THEN Loaded(tbl, c, First(tbl, c.email))
         ELSE Finished(tbl, c, Result(FALSE, "No subscriber found with email"))
    ELSE Finished(tbl \ WithId(tbl, c.row.id), c,
                  Result(TRUE, "Subscriber has been permanently deleted"))

\* lines 213-225: the count of the active rows at "select" (line 214), the
\* count of the inactive rows at "count2" (line 215), and the sum
count_subscribers(tbl, clock, c, fault) ==
    IF fault
    THEN Failed(tbl, c, Result(FALSE, "Error counting subscribers"))
    ELSE IF c.pc = "select"
    THEN [subscribers |-> tbl,
          call |-> [c EXCEPT !.pc = "count2",
                             !.result.active =
                                Cardinality({r \in tbl : r.is_active})]]
    ELSE LET active_count == c.result.active
             inactive_count == Cardinality({r \in tbl : ~r.is_active})
         IN Finished(tbl, c,
                     [success |-> TRUE, message |-> "",
                      total |-> active_count + inactive_count,
                      active |-> active_count,
                      inactive |-> inactive_count])

\* lines 230-238: one DELETE of every row and its commit
clear_all_subscribers(tbl, clock, c, fault) ==
    IF fault
    THEN Failed(tbl, c, Result(FALSE, "Error deleting data"))
    ELSE Finished({}, c, Result(TRUE, "All subscriber data has been deleted"))

----------------------------------------------------------------------------
(* Inputs of the subscriber store *)

Emails == {"ann@example.org", "bob@example.org"}

NoPlace == [city |-> "", state |-> "", country |-> ""]

\* the name and location arguments of add_subscriber
Profiles ==
    {[name |-> "Ann", place |-> [city |-> "Pune", state |-> "MH", country |-> "India"]],
     [name |-> "Bob", place |-> [city |-> "Lyon", state |-> "ARA", country |-> "France"]]}

\* the table when the sessions start: the file holds the row of an earlier
\* subscription (the empty table is one delete_subscriber away)
DbTables ==
    {{NewSubscriber(1, 0, "Zed", "ann@example.org",
                    [city |-> "Pune", state |-> "MH", country |-> "India"])}}

----------------------------------------------------------------------------
(* Specification of the subscriber store: the calls of two sessions, in    *)
(* any order and interleaved at their statements                           *)

InitDb ==
    /\ subscribers \in DbTables
    /\ db_calls = 0
    /\ last_call = [s \in DbSessions |-> NoCall]
    /\ api_key = TRUE
    /\ AqiIdle
    /\ CurIdle
    /\ HistIdle
    /\ WeekIdle
    /\ RecIdle
    /\ FcIdle
    /\ NewsIdle
    /\ SchedIdle

\* session s calls op: get_db at the function's first line, outside its
\* try block, and the first pass of its loop.  The calls that run
\* meanwhile are marked as overlapped.
DbCall(s, op, name, email, loc, ok) ==
    /\ ~Running(last_call[s])
    /\ db_calls' = db_calls + 1
    /\ last_call' =
          [t \in DbSessions |->
              IF t = s
              THEN get_db([op |-> op, name |-> name, email |-> email,
                           place |-> loc, pc |-> "get_db", attempt |-> 0,
                           row |-> NoRow, stamp |-> None, fault |-> FALSE,
                           overlapped |->
                              \E u \in DbSessions \ {s} : Running(last_call[u]),
                           result |-> Result(FALSE, "")], ok)
              ELSE IF Running(last_call[t])
              THEN [last_call[t] EXCEPT !.overlapped = TRUE]
              ELSE last_call[t]]
    /\ UNCHANGED subscribers

\* the sleep of line 113 in session s's call of op is over: the next pass
\* of get_db's loop
DbRetry(s, op, ok) ==
    /\ last_call[s].pc = "sleep"
    /\ last_call[s].op = op
    /\ last_call' = [last_call EXCEPT ![s] = get_db(last_call[s], ok)]
    /\ UNCHANGED <<subscribers, db_calls>>

\* the next statement of the call session s is in: after is what the
\* operation makes of the table and of the call
DbStep(s, op, after) ==
    /\ InStatement(last_call[s])
    /\ last_call[s].op = op
    /\ subscribers' = after.subscribers
    /\ last_call' = [last_call EXCEPT ![s] = after.call]
    /\ UNCHANGED db_calls

AddSubscriber ==
    /\ \E s \in DbSessions :
         \/ /\ db_calls < MaxCalls
            /\ \E p \in Profiles, email \in Emails, ok \in BOOLEAN :
                 DbCall(s, "add_subscriber", p.name, email, p.place, ok)
         \/ \E ok \in BOOLEAN : DbRetry(s, "add_subscriber", ok)
         \/ \E fault \in BOOLEAN :
              DbStep(s, "add_subscriber",
                     add_subscriber(subscribers, db_calls, last_call[s], fault))
    /\ UNCHANGED db_rest

Unsubscribe ==
    /\ \E s \in DbSessions :
         \/ /\ db_calls < MaxCalls
            /\ \E email \in Emails, ok \in BOOLEAN :
                 DbCall(s, "unsubscribe", "", email, NoPlace, ok)
         \/ \E ok \in BOOLEAN : DbRetry(s, "unsubscribe", ok)
         \/ \E fault \in BOOLEAN :
              DbStep(s, "unsubscribe",
                     unsubscribe(subscribers, db_calls, last_call[s], fault))
    /\ UNCHANGED db_rest

UpdateLastEmailSent ==
    /\ \E s \in DbSessions :
         \/ /\ db_calls < MaxCalls
            /\ \E email \in Emails, ok \in BOOLEAN :
                 DbCall(s, "update_last_email_sent", "", email, NoPlace, ok)
         \/ \E ok \in BOOLEAN : DbRetry(s, "update_last_email_sent", ok)
         \/ \E fault \in BOOLEAN :
              DbStep(s, "update_last_email_sent",
                     update_last_email_sent(subscribers, db_calls, last_call[s],
                                            fault))
    /\ UNCHANGED db_rest

DeleteSubscriber ==
    /\ \E s \in DbSessions :
         \/ /\ db_calls < MaxCalls
            /\ \E email \in Emails, ok \in BOOLEAN :
                 DbCall(s, "delete_subscriber", "", email, NoPlace, ok)
         \/ \E ok \in BOOLEAN : DbRetry(s, "delete_subscriber", ok)
         \/ \E fault \in BOOLEAN :
              DbStep(s, "delete_subscriber",
                     delete_subscriber(subscribers, db_calls, last_call[s], fault))
    /\ UNCHANGED db_rest

CountSubscribers ==
    /\ \E s \in DbSessions :
         \/ /\ db_calls < MaxCalls
            /\ \E ok \in BOOLEAN :
                 DbCall(s, "count_subscribers", "", "", NoPlace, ok)
         \/ \E ok \in BOOLEAN : DbRetry(s, "count_subscribers", ok)
         \/ \E fault \in BOOLEAN :
              DbStep(s, "count_subscribers",
                     count_subscribers(subscribers, db_calls, last_call[s], fault))
    /\ UNCHANGED db_rest

ClearAllSubscribers ==
    /\ \E s \in DbSessions :
         \/ /\ db_calls < MaxCalls
            /\ \E ok \in BOOLEAN :
                 DbCall(s, "clear_all_subscribers", "", "", NoPlace, ok)
         \/ \E ok \in BOOLEAN : DbRetry(s, "clear_all_subscribers", ok)
         \/ \E fault \in BOOLEAN :
              DbStep(s, "clear_all_subscribers",
                     clear_all_subscribers(subscribers, db_calls, last_call[s],
                                           fault))
    /\ UNCHANGED db_rest

NextDb ==
    \/ AddSubscriber
    \/ Unsubscribe
    \/ UpdateLastEmailSent
    \/ DeleteSubscriber
    \/ CountSubscribers
    \/ ClearAllSubscribers

SpecDb == InitDb /\ [][NextDb]_vars

----------------------------------------------------------------------------
(* get_forecast_data.  A timestamp 'dt' is in hours; a date is a day       *)
(* number.  An average is kept as the exact fraction num / den of the      *)
(* division sum(values) / len(values).                                     *)

\* datetime.fromtimestamp(dt).date()
DateOf(dt) == dt \div 24

MinOfSeq(s) == CHOOSE m \in {s[i] : i \in 1..Len(s)} : \A i \in 1..Len(s) : m <= s[i]

\* lines 787-797: the dictionary daily_forecasts, as its items in insertion
\* order; an item without 'dt' or without main.temp raises KeyError
RECURSIVE GroupTemps(_, _, _)
GroupTemps(list, i, d) ==
    IF i > Len(list) THEN [kind |-> "ok", dict |-> d]
    ELSE IF ~list[i].has_dt \/ list[i].temp = None
    THEN [kind |-> "raise", dict |-> d]
    ELSE LET date_key == DateOf(list[i].dt)
             k == DictIndex(d, date_key)
         IN GroupTemps(list, i + 1,
                IF k = 0
                THEN Append(d, [date |-> date_key, temps |-> <<list[i].temp>>,
                                aqi_values |-> <<>>])
                ELSE [d EXCEPT ![k].temps = Append(@, list[i].temp)])

\* lines 800-811: an AQI sample is kept only for a date already in the
\* dictionary; aqi_values empty stands for the key being absent
RECURSIVE AddAqiValues(_, _, _)
AddAqiValues(list, i, d) ==
    IF i > Len(list) THEN [kind |-> "ok", dict |-> d]
    ELSE IF ~list[i].has_dt THEN [kind |-> "raise", dict |-> d]
    ELSE LET k == DictIndex(d, DateOf(list[i].dt))
             aqi == calculate_aqi_from_pollutants(list[i].components)
         IN AddAqiValues(list, i + 1,
                IF k = 0 THEN d
                ELSE [d EXCEPT ![k].aqi_values = Append(@, aqi)])

\* lines 814-827
DailyStats(data) ==
    LET temps == data.temps
        aqi_values == IF data.aqi_values = <<>> THEN <<50>> ELSE data.aqi_values
    IN [date |-> data.date,
        temp_min |-> MinOfSeq(temps),
        temp_max |-> MaxOfSeq(temps),
        temp_avg |-> [num |-> SumSeq(temps), den |-> Len(temps)],
        aqi_min |-> MinOfSeq(aqi_values),
        aqi_max |-> MaxOfSeq(aqi_values),
        aqi_avg |-> [num |-> SumSeq(aqi_values), den |-> Len(aqi_values)]]

\* faulty variant: the list is cut before it is sorted
SortAndLimitCutFirst(stats) ==
    SortByDate(SubSeq(stats, 1, IF Len(stats) < 7 THEN Len(stats) ELSE 7))

\* lines 830-831: sort(key=date), then [:7]
SortAndLimit(stats) ==
    LET sorted == SortByDate(stats)
    IN SubSeq(sorted, 1, IF Len(sorted) < 7 THEN Len(sorted) ELSE 7)

\* lines 782-833: the processing of the two answers
ProcessForecast(forecast, aqi) ==
    IF ~forecast.has_list THEN [kind |-> "ok", list |-> <<>>]
    ELSE LET temps == GroupTemps(forecast.list, 1, <<>>)
             both == AddAqiValues(aqi.list, 1, temps.dict)
         IN IF temps.kind = "raise" \/ both.kind = "raise"
            THEN [kind |-> "raise", list |-> <<>>]
            ELSE [kind |-> "ok",
                  list |-> SortAndLimit([k \in 1..Len(both.dict) |->
                                            DailyStats(both.dict[k])])]

\* lines 838-849: the list built by the exception handler, for i in range(7)
PlaceholderForecast(today) ==
    [i \in 1..7 |->
        [date |-> today + i - 1,
         temp_min |-> 200, temp_max |-> 250,
         temp_avg |-> [num |-> 225, den |-> 1],
         aqi_min |-> 45, aqi_max |-> 55,
         aqi_avg |-> [num |-> 50, den |-> 1]]]

----------------------------------------------------------------------------
(* Inputs of get_forecast_data *)

FcDates == {100, 465}

FcItem(dt_, temp_) == [has_dt |-> TRUE, dt |-> dt_, temp |-> temp_]

AqiSample(dt_, comps) == [has_dt |-> TRUE, dt |-> dt_, components |-> comps]
AqiSampleNoDt == [has_dt |-> FALSE, dt |-> None, components |-> NoComponents]

\* the answers of the forecast call for today = d: failure, a body without
\* 'list', and lists: two dates out of order, nine dates latest first, an
\* item without main.temp, an item without 'dt', no item
FcForecastAnswers(d) ==
    {[status |-> "raise", has_list |-> FALSE, list |-> <<>>],
     [status |-> "ok", has_list |-> FALSE, list |-> <<>>]}
    \cup
    {[status |-> "ok", has_list |-> TRUE, list |-> l] :
        l \in {<<FcItem(24 * d + 27, t1), FcItem(24 * d + 12, t2),
                 FcItem(24 * d + 30, t1 - 20)>> : t1 \in {150, 221}, t2 \in {150, 221}}
              \cup
              {[i \in 1..9 |-> FcItem(24 * (d + 9 - i) + 12, 150 + 10 * i)],
               <<FcItem(24 * d + 12, 183), FcItem(24 * d + 15, None)>>,
               <<FcMalformed>>,
               <<>>}}

\* the answers of the AQI-forecast call: failure, a body without 'list', and
\* lists: samples on a forecast date and on a date without forecast, a
\* sample without components, a sample without 'dt', no sample
FcAqiAnswers(d) ==
    {[status |-> "raise", has_list |-> FALSE, list |-> <<>>],
     [status |-> "ok", has_list |-> FALSE, list |-> <<>>]}
    \cup
    {[status |-> "ok", has_list |-> TRUE, list |-> l] :
        l \in {<<AqiSample(24 * d + 13, MkComponents(700, None, None)),
                 AqiSample(24 * d + 14, MkComponents(100, None, None)),
                 AqiSample(24 * (d + 20) + 1, MkComponents(700, None, None))>>,
               <<AqiSample(24 * d + 30, NoComponents)>>,
               <<AqiSampleNoDt>>,
               <<>>}}

----------------------------------------------------------------------------
(* Specification of get_forecast_data *)

InitFc ==
    /\ fc_pc = "forecast"
    /\ fc_today \in FcDates
    /\ fc_forecast = NoAnswer
    /\ aqi_forecast = NoAnswer
    /\ processed_forecast = <<>>
    /\ fc_raised = "none"
    /\ api_key \in BOOLEAN
    /\ AqiIdle
    /\ CurIdle
    /\ HistIdle
    /\ WeekIdle
    /\ RecIdle
    /\ DbIdle
    /\ NewsIdle
    /\ SchedIdle

\* lines 753-768: a missing key raises ValueError, a failed call raises
FcFetchForecast ==
    /\ fc_pc = "forecast"
    /\ IF ~api_key
       THEN /\ fc_raised' = "key"
            /\ fc_pc' = "except"
            /\ UNCHANGED fc_forecast
       ELSE \E ans \in FcForecastAnswers(fc_today) :
              /\ fc_forecast' = ans
              /\ IF ans.status = "raise"
                 THEN fc_raised' = "forecast" /\ fc_pc' = "except"
                 ELSE fc_raised' = "none" /\ fc_pc' = "aqi"
    /\ UNCHANGED <<fc_today, aqi_forecast, processed_forecast, fc_rest>>

\* lines 770-780: inside the same try block
FcFetchAqi ==
    /\ fc_pc = "aqi"
    /\ \E ans \in FcAqiAnswers(fc_today) :
         /\ aqi_forecast' = ans
         /\ IF ans.status = "raise"
            THEN fc_raised' = "aqi" /\ fc_pc' = "except"
            ELSE fc_raised' = "none" /\ fc_pc' = "process"
    /\ UNCHANGED <<fc_today, fc_forecast, processed_forecast, fc_rest>>

\* lines 782-833
FcProcess ==
    /\ fc_pc = "process"
    /\ LET out == ProcessForecast(fc_forecast, aqi_forecast)
       IN IF out.kind = "raise"
          THEN /\ fc_raised' = "process"
               /\ fc_pc' = "except"
               /\ UNCHANGED processed_forecast
          ELSE /\ processed_forecast' = out.list
               /\ fc_pc' = "done"
               /\ UNCHANGED fc_raised
    /\ UNCHANGED <<fc_today, fc_forecast, aqi_forecast, fc_rest>>

\* lines 835-849
FcExcept ==
    /\ fc_pc = "except"
    /\ processed_forecast' = PlaceholderForecast(fc_today)
    /\ fc_pc' = "done_fallback"
    /\ UNCHANGED <<fc_today, fc_forecast, aqi_forecast, fc_raised, fc_rest>>

NextFc ==
    \/ FcFetchForecast
    \/ FcFetchAqi
    \/ FcProcess
    \/ FcExcept

SpecFc == InitFc /\ [][NextFc]_vars

----------------------------------------------------------------------------
(* send_newsletters and send_newsletter_to_subscriber (src/newsletter.py), *)
(* run by the scheduler's thread while user sessions call the subscriber   *)
(* store.  The job's thread is session "a" of the store and the user       *)
(* sessions are session "b"; their statements interleave.                  *)

\* calls other sessions make during one run
MaxOther == 2

\* database.py lines 153-160, after get_db returned a session: the active
\* rows, in primary-key order
get_active_subscribers(tbl) ==
    LET active == {r \in tbl : r.is_active}
    IN CHOOSE s \in [1..Cardinality(active) -> active] :
          \A i \in 1..Cardinality(active), j \in 1..Cardinality(active) :
              i < j => s[i].id < s[j].id

\* faulty variant: the first failure ends the loop
ContinueAfterSuccess(outcome) ==
    IF outcome = "sent" THEN "next" ELSE "done"

\* lines 555-559: the loop goes on to the next subscriber whatever the
\* attempt returned or raised
ContinueAfter(outcome) == "next"

\* nothing in a newsletter run reads what a finished call of the store
\* returned: its record is dropped
Unread(after) ==
    [after EXCEPT !.call = IF Running(after.call) THEN after.call ELSE NoCall]

\* the subscriber of the current iteration
Current == news_subscribers[news_idx]

IsActive(tbl, email) == \E r \in tbl : r.email = email /\ r.is_active

\* one more attempt whose outcome is settled
Logged(outcome) ==
    Append(attempt_log,
           [email |-> Current.email, outcome |-> outcome,
            active |-> IsActive(subscribers, Current.email)])

----------------------------------------------------------------------------
(* Inputs of a newsletter run *)

NewsEmails == <<"ann@example.org", "bob@example.org", "cy@example.org">>

\* the address of a visitor who is not in the table when the job starts
NewEmail == "dan@example.org"

\* the job's session and the user sessions' one
NewsJob == "a"

NewsUser == "b"

\* the table when the job starts: three rows, of which the first is
\* unsubscribed
NewsTables ==
    {{[id |-> i, name |-> "", email |-> NewsEmails[i], subscribed_at |-> 0,
       is_active |-> act[i], location_city |-> "", location_state |-> "",
       location_country |-> "", last_email_sent |-> None] : i \in 1..3}
        : act \in {<<FALSE, TRUE, TRUE>>}}

\* the row the user sessions unsubscribe or delete during the run: the
\* last one, whose id a later subscription gets again
OtherRows == {3}

----------------------------------------------------------------------------
(* Specification of a newsletter run *)

InitNews ==
    /\ news_pc = "start"
    /\ sendgrid_key \in BOOLEAN
    /\ news_subscribers = <<>>
    /\ news_idx = 0
    /\ response = "none"
    /\ attempt_log = <<>>
    /\ other_calls = 0
    /\ subscribers \in NewsTables
    /\ db_calls = 0
    /\ last_call = [s \in DbSessions |-> NoCall]
    /\ api_key = TRUE
    /\ AqiIdle
    /\ CurIdle
    /\ HistIdle
    /\ WeekIdle
    /\ RecIdle
    /\ FcIdle
    /\ SchedIdle

\* lines 546-553: without a key the job returns at once; otherwise
\* get_active_subscribers is called, and its first line is get_db
\* (database.py line 155)
NewsStart ==
    /\ news_pc = "start"
    /\ IF ~sendgrid_key
       THEN news_pc' = "done" /\ UNCHANGED db_vars
       ELSE /\ \E ok \in BOOLEAN :
                 DbCall(NewsJob, "get_active_subscribers", "", "", NoPlace, ok)
            /\ news_pc' = "list"
    /\ UNCHANGED <<sendgrid_key, news_subscribers, news_idx, response,
                   attempt_log, other_calls, news_rest>>

\* database.py lines 153-160: the later passes of get_db, then the SELECT
\* of line 157.  The function has no except clause, so when get_db or the
\* query raises the exception leaves send_newsletters.
NewsList ==
    /\ news_pc = "list"
    /\ \/ /\ \E ok \in BOOLEAN : DbRetry(NewsJob, "get_active_subscribers", ok)
          /\ news_pc' = IF last_call'[NewsJob].pc = "raised" THEN "raised"
                        ELSE "list"
          /\ UNCHANGED news_subscribers
       \/ /\ DbStep(NewsJob, "get_active_subscribers",
                    [subscribers |-> subscribers, call |-> NoCall])
          /\ \E fault \in BOOLEAN :
               IF fault
               THEN news_pc' = "raised" /\ UNCHANGED news_subscribers
               ELSE /\ news_subscribers' = get_active_subscribers(subscribers)
                    /\ news_pc' = "next"
    /\ UNCHANGED <<sendgrid_key, news_idx, response, attempt_log, other_calls,
                   news_rest>>

\* line 555: the next subscriber of the list, or the end of the job
NewsNext ==
    /\ news_pc = "next"
    /\ IF news_idx < Len(news_subscribers)
       THEN news_idx' = news_idx + 1 /\ news_pc' = "gather"
       ELSE news_pc' = "done" /\ UNCHANGED news_idx
    /\ response' = "none"
    /\ UNCHANGED <<sendgrid_key, news_subscribers, attempt_log, other_calls,
                   db_vars, news_rest>>

\* lines 511-528: the data of the cities, the HTML and the Mail object; an
\* exception is caught at line 542 and the function returns False
NewsGather ==
    /\ news_pc = "gather"
    /\ \E outcome \in {"ok", "gather_error", "render_error"} :
         IF outcome = "ok"
         THEN news_pc' = "post" /\ UNCHANGED attempt_log
         ELSE /\ attempt_log' = Logged(outcome)
              /\ news_pc' = ContinueAfter(outcome)
    /\ UNCHANGED <<sendgrid_key, news_subscribers, news_idx, response,
                   other_calls, db_vars, news_rest>>

\* lines 530-534, 539-544: the post to the email provider
NewsPost ==
    /\ news_pc = "post"
    /\ \E reply \in {"2xx", "non_2xx", "exception"} :
         /\ response' = reply
         /\ IF reply = "2xx"
            THEN /\ attempt_log' = Logged("sent")
                 /\ news_pc' = "update"
            ELSE /\ attempt_log' = Logged(IF reply = "non_2xx" THEN "rejected"
                                          ELSE "post_error")
                 /\ news_pc' = ContinueAfter(reply)
    /\ UNCHANGED <<sendgrid_key, news_subscribers, news_idx, other_calls,
                   db_vars, news_rest>>

\* lines 535-538: update_last_email_sent(subscriber.email) is called; its
\* first line is get_db
NewsUpdate ==
    /\ news_pc = "update"
    /\ \E ok \in BOOLEAN :
         DbCall(NewsJob, "update_last_email_sent", "", Current.email, NoPlace, ok)
    /\ news_pc' = "updating"
    /\ UNCHANGED <<sendgrid_key, news_subscribers, news_idx, response,
                   attempt_log, other_calls, news_rest>>

\* database.py lines 178-192 inside that call: the later passes of get_db,
\* whose exception is caught at line 542 of newsletter.py, then the SELECT
\* with the time taken, then the commit; the result is not read
NewsUpdateStatement ==
    /\ news_pc = "updating"
    /\ \/ /\ \E ok \in BOOLEAN : DbRetry(NewsJob, "update_last_email_sent", ok)
          /\ news_pc' = IF last_call'[NewsJob].pc = "raised"
                        THEN ContinueAfter("sent") ELSE "updating"
       \/ \E fault \in BOOLEAN :
            LET after == update_last_email_sent(subscribers, db_calls,
                                                last_call[NewsJob], fault)
            IN /\ DbStep(NewsJob, "update_last_email_sent", Unread(after))
               /\ news_pc' = IF Running(after.call) THEN "updating"
                             ELSE ContinueAfter("sent")
    /\ UNCHANGED <<sendgrid_key, news_subscribers, news_idx, response,
                   attempt_log, other_calls, news_rest>>

\* the job is between the first line of get_active_subscribers and its end
NewsRunning ==
    news_pc \in {"list", "next", "gather", "post", "update", "updating"}

\* a user session begins a call while the job runs; its get_db returns a
\* session at the first pass
OtherCall(op, name, email) ==
    /\ NewsRunning
    /\ other_calls < MaxOther
    /\ other_calls' = other_calls + 1
    /\ DbCall(NewsUser, op, name, email, NoPlace, TRUE)

\* the next statement of the user session's call
OtherStatement(op, after) ==
    /\ DbStep(NewsUser, op, Unread(after))
    /\ UNCHANGED other_calls

\* a user session unsubscribes an address while the job runs
OtherUnsubscribe ==
    /\ \/ \E i \in OtherRows : OtherCall("unsubscribe", "", NewsEmails[i])
       \/ \E fault \in BOOLEAN :
            OtherStatement("unsubscribe",
                           unsubscribe(subscribers, db_calls,
                                       last_call[NewsUser], fault))
    /\ UNCHANGED <<news_pc, sendgrid_key, news_subscribers, news_idx, response,
                   attempt_log, news_rest>>

\* the admin page deletes a row while the job runs
OtherDelete ==
    /\ \/ \E i \in OtherRows : OtherCall("delete_subscriber", "", NewsEmails[i])
       \/ \E fault \in BOOLEAN :
            OtherStatement("delete_subscriber",
                           delete_subscriber(subscribers, db_calls,
                                             last_call[NewsUser], fault))
    /\ UNCHANGED <<news_pc, sendgrid_key, news_subscribers, news_idx, response,
                   attempt_log, news_rest>>

\* a visitor subscribes while the job runs
OtherAdd ==
    /\ \/ OtherCall("add_subscriber", "Dan", NewEmail)
       \/ \E fault \in BOOLEAN :
            OtherStatement("add_subscriber",
                           add_subscriber(subscribers, db_calls,
                                          last_call[NewsUser], fault))
    /\ UNCHANGED <<news_pc, sendgrid_key, news_subscribers, news_idx, response,
                   attempt_log, news_rest>>

\* the admin page deletes every row while the job runs (src/app1.py,
\* line 954)
OtherClearAll ==
    /\ \/ OtherCall("clear_all_subscribers", "", "")
       \/ \E fault \in BOOLEAN :
            OtherStatement("clear_all_subscribers",
                           clear_all_subscribers(subscribers, db_calls,
                                                 last_call[NewsUser], fault))
    /\ UNCHANGED <<news_pc, sendgrid_key, news_subscribers, news_idx, response,
                   attempt_log, news_rest>>

\* the steps of the job itself
NewsRun ==
    \/ NewsStart
    \/ NewsList
    \/ NewsNext
    \/ NewsGather
    \/ NewsPost
    \/ NewsUpdate
    \/ NewsUpdateStatement

NextNews ==
    \/ NewsRun
    \/ OtherUnsubscribe
    \/ OtherDelete
    \/ OtherAdd
    \/ OtherClearAll

SpecNews == InitNews /\ [][NextNews]_vars

\* every call the job makes returns or raises, so the job takes its next step
SpecNewsFair == SpecNews /\ WF_vars(NewsRun)

----------------------------------------------------------------------------
(* start_scheduler and stop_scheduler (src/newsletter.py) on the module's  *)
(* one BackgroundScheduler.  Every user session runs the page script in a  *)
(* thread of its own and calls start_scheduler once (src/app1.py, lines    *)
(* 853-860); the statements of two calls can interleave.                   *)

\* stop_scheduler calls in one behaviour
MaxStops == 2

InitSched ==
    /\ SchedIdle
    /\ api_key = TRUE
    /\ AqiIdle
    /\ CurIdle
    /\ HistIdle
    /\ WeekIdle
    /\ RecIdle
    /\ DbIdle
    /\ FcIdle
    /\ NewsIdle

\* line 570: the test 'if not scheduler.running'; lines 574-575 otherwise
SchedCheck(s) ==
    /\ sess_pc[s] = "idle"
    /\ sess_pc' = [sess_pc EXCEPT ![s] = IF sched_running THEN "done" ELSE "checked"]
    /\ UNCHANGED <<sched_running, sched_jobs, sched_pending, stops, trigger_runs,
                   sched_rest>>

\* line 572: add_job; a job added to a stopped scheduler waits for start()
SchedAddJob(s) ==
    /\ sess_pc[s] = "checked"
    /\ IF sched_running
       THEN sched_jobs' = sched_jobs + 1 /\ UNCHANGED sched_pending
       ELSE sched_pending' = sched_pending + 1 /\ UNCHANGED sched_jobs
    /\ sess_pc' = [sess_pc EXCEPT ![s] = "added"]
    /\ UNCHANGED <<sched_running, stops, trigger_runs, sched_rest>>

\* line 573: start() stores the waiting jobs; on a running scheduler it
\* raises, and line 577 catches that
SchedStart(s) ==
    /\ sess_pc[s] = "added"
    /\ IF sched_running
       THEN UNCHANGED <<sched_running, sched_jobs, sched_pending>>
       ELSE /\ sched_running' = TRUE
            /\ sched_jobs' = sched_jobs + sched_pending
            /\ sched_pending' = 0
    /\ sess_pc' = [sess_pc EXCEPT ![s] = "done"]
    /\ UNCHANGED <<stops, trigger_runs, sched_rest>>

\* lines 580-587: shutdown() of a running scheduler empties its job store
StopScheduler ==
    /\ stops < MaxStops
    /\ stops' = stops + 1
    /\ IF sched_running
       THEN sched_running' = FALSE /\ sched_jobs' = 0
       ELSE UNCHANGED <<sched_running, sched_jobs>>
    /\ UNCHANGED <<sched_pending, sess_pc, trigger_runs, sched_rest>>

\* Sunday 8 AM: a running scheduler runs every stored job once
WeeklyTrigger ==
    /\ sched_running
    /\ trigger_runs' = sched_jobs
    /\ UNCHANGED <<sched_running, sched_jobs, sched_pending, sess_pc, stops,
                   sched_rest>>

NextSched ==
    \/ \E s \in Sessions : SchedCheck(s)
    \/ \E s \in Sessions : SchedAddJob(s)
    \/ \E s \in Sessions : SchedStart(s)
    \/ StopScheduler
    \/ WeeklyTrigger

SpecSched == InitSched /\ [][NextSched]_vars

----------------------------------------------------------------------------
(* Claims about the calculator *)

Returned == aqi_value # None

\* the call was made with exactly one of pm2_5, pm10
SinglePollutant(key) == DOMAIN components \cap {"pm2_5", "pm10"} = {key}

\* C1: with a single pollutant, a larger concentration never yields a
\* smaller AQI than the one returned for the concentration of this call.
C1_Monotone ==
    \A key \in {"pm2_5", "pm10"} :
        (Returned /\ SinglePollutant(key)) =>
            \A c2 \in Concs(TableOf(key)) :
                components[key] <= c2 =>
                    aqi_value <= calculate_aqi_from_pollutants(MkSingle(key, c2))

\* C2: whatever pollutants are present and whatever their concentrations
\* (0 included), the calculator returns an integer between 1 and 500.
C2_Range == Returned => aqi_value \in 1..500

\* the rows of a table whose concentration range holds c
RowsHolding(breakpoints, c) ==
    {i \in 1..Len(breakpoints) : breakpoints[i][1] <= c /\ c <= breakpoints[i][2]}

\* C3: with a single pollutant whose concentration lies in a row of its
\* table, the returned AQI lies between that row's low_aqi and high_aqi.
C3_InBand ==
    \A key \in {"pm2_5", "pm10"} :
        (Returned /\ SinglePollutant(key)) =>
            \A i \in RowsHolding(TableOf(key), components[key]) :
                /\ TableOf(key)[i][3] <= aqi_value
                /\ aqi_value <= TableOf(key)[i][4]

\* a call whose concentration is strictly inside a row and whose
\* interpolation was truncated to a value strictly inside the row's range
C3_Witness ==
    /\ Returned
    /\ SinglePollutant("pm2_5")
    /\ \E i \in RowsHolding(pm25_breakpoints, components["pm2_5"]) :
          LET row == pm25_breakpoints[i]
          IN /\ i > 1
             /\ row[1] < components["pm2_5"] /\ components["pm2_5"] < row[2]
             /\ ((row[4] - row[3]) * (components["pm2_5"] - row[1])) % (row[2] - row[1]) # 0
             /\ row[3] < aqi_value /\ aqi_value < row[4]

\* the pollutants among pm2_5 and pm10 that the mapping holds
Present == DOMAIN components \cap {"pm2_5", "pm10"}

PollutantAqi(key) == calculate_pollutant_aqi(components[key], TableOf(key))

\* C4: the result is the largest per-pollutant AQI of the pollutants
\* present, adding the other pollutant never lowers it, and it is 50 when
\* neither pm2_5 nor pm10 is present, whatever other key is.
C4_WorstPollutant ==
    Returned =>
        /\ Present = {} => aqi_value = 50
        /\ Present # {} =>
              /\ \A key \in Present : PollutantAqi(key) <= aqi_value
              /\ \E key \in Present : PollutantAqi(key) = aqi_value
        /\ \A key \in {"pm2_5", "pm10"} \ Present :
              Present # {} =>
                \A c \in Concs(TableOf(key)) :
                    aqi_value <= calculate_aqi_from_pollutants(
                                    [k \in DOMAIN components \cup {key} |->
                                        IF k = key THEN c ELSE components[k]])

\* both pollutants present, the second one (pm10) being the worse
C4_Witness ==
    /\ Returned
    /\ Present = {"pm2_5", "pm10"}
    /\ PollutantAqi("pm2_5") < PollutantAqi("pm10")
    /\ aqi_value = PollutantAqi("pm10")
    /\ "no2" \in DOMAIN components

----------------------------------------------------------------------------
(* Claims about get_current_weather_and_aqi *)

CurDone == cur_pc = "done"

\* C5: whatever the three providers answer, every field of the returned
\* result is non-null and its aqi lies in 1..500.
C5_FullyPopulated ==
    CurDone =>
        /\ \A f \in ResultFields : result[f] # None
        /\ 1 <= result.aqi /\ result.aqi <= 500

\* a core field that Provider A's block left unset
MissingAfterA(f) == after_a[f] = None

\* C6 as claimed: Provider B is queried if and only if, after Provider A,
\* one of temperature, humidity, wind_speed, precipitation_probability is
\* missing.
C6_FallbackOnCoreFour ==
    CurDone =>
        ("B" \in attempted <=>
            \E f \in {"temperature", "humidity", "wind_speed",
                      "precipitation_probability"} : MissingAfterA(f))

\* C6 as amended: Provider B's block is entered if and only if Provider A's
\* block raised or left one of temperature, humidity, wind_speed unset; a
\* missing precipitation_probability alone does not trigger it.
C6_FallbackOnCoreThree ==
    CurDone =>
        ("B" \in attempted <=>
            \/ "A" \in failed
            \/ \E f \in {"temperature", "humidity", "wind_speed"} : MissingAfterA(f))

\* Provider A supplied temperature, humidity and wind_speed but no
\* precipitation_probability, and the call returned without entering
\* Provider B's block
C6_Witness ==
    /\ CurDone
    /\ respA.status = "ok"
    /\ ~MissingAfterA("temperature")
    /\ ~MissingAfterA("humidity")
    /\ ~MissingAfterA("wind_speed")
    /\ MissingAfterA("precipitation_probability")
    /\ "B" \notin attempted
    /\ "C" \in attempted

ErrorOf(p) ==
    IF p = "A" THEN "Open-Meteo API error"
    ELSE IF p = "B" THEN "OpenWeatherMap API error"
    ELSE "AQI API error"

ErrorsRecorded == {result.error[i] : i \in 1..Len(result.error)}

\* C7: the call always runs to its return; the returned error field is set
\* if and only if an attempted provider call failed, and it holds the
\* message of every call that failed.
C7_ErrorsRecorded ==
    /\ CurDone \/ cur_pc = "idle" \/ ENABLED NextCur
    /\ CurDone =>
          /\ failed \subseteq attempted
          /\ result.error # <<>> <=> failed # {}
          /\ \A p \in failed : ErrorOf(p) \in ErrorsRecorded
          /\ \A p \in {"A", "B", "C"} \ failed : ErrorOf(p) \notin ErrorsRecorded

\* all three provider calls were attempted and failed, the key being set,
\* and the call returned with the three messages
C7_Witness ==
    /\ CurDone
    /\ api_key
    /\ failed = {"A", "B", "C"}
    /\ Len(result.error) = 3

----------------------------------------------------------------------------
(* Claims about get_historical_data *)

HistDone == hist_pc \in {"done", "done_fallback"}

\* C8: on every return path the result is 24 entries flagged is_last_24h,
\* one hour apart and oldest first, followed by exactly one entry that is
\* not flagged.
C8_SeriesShape ==
    HistDone =>
        /\ Len(returned) = 25
        /\ \A i \in 1..24 : returned[i].is_last_24h
        /\ \A i \in 1..23 : returned[i + 1].date = returned[i].date + 60
        /\ ~returned[25].is_last_24h

\* C9: every entry returned, the trailing current entry included, has an
\* aqi between 1 and 500.
C9_AqiClamped ==
    HistDone =>
        \A i \in 1..Len(returned) :
            10000 <= returned[i].aqi /\ returned[i].aqi <= 5000000

OvernightHours == {22, 23, 0, 1, 2, 3, 4}

\* C10: when an hour's AQI is synthesized, the multiplier is above 1 for
\* hours 7..9 and 16..19 and below 1 for hours 11..15 and the overnight
\* hours, and the value before clamping lies within [0.9, 1.1] times the
\* current AQI times the multiplier.
C10_TimeOfDayMultiplier ==
    (iter.hour_of_day # None /\ ~iter.aqi_found) =>
        /\ iter.hour_of_day \in (7..9) \cup (16..19) => iter.aqi_factor > 100
        /\ iter.hour_of_day \in (11..15) \cup OvernightHours => iter.aqi_factor < 100
        /\ 90 * current_aqi * iter.aqi_factor <= iter.aqi
        /\ iter.aqi <= 110 * current_aqi * iter.aqi_factor

\* the forecast call and the AQI call both raised (the AQI forecast call is
\* only made after the current AQI call succeeded)
FetchesFailed == {"forecast", "aqi_now"} \subseteq fetch_failed

\* C11: get_historical_data always runs to a return, whichever of the
\* forecast call and the two AQI calls fail; and when they fail the series
\* is still the full one (24 hourly entries and the current one), every
\* hourly temperature within 0.5 degree of the base temperature plus the
\* deviation of its hour of day, and every hourly AQI the clamped product
\* of the current AQI, a time-of-day factor and a factor in 0.9 .. 1.1.
C11_NeverRaises ==
    /\ HistDone \/ ENABLED NextHist
    /\ HistDone /\ FetchesFailed =>
        /\ hist_pc = "done"
        /\ Len(returned) = 25
        /\ \A i \in 1..24 :
            LET base == returned[25].temperature
                base_aqi == returned[25].aqi \div 10000
                dev == hourly_temp_deviations[returned[i].hour + 1]
            IN /\ base + dev - 5 <= returned[i].temperature
               /\ returned[i].temperature <= base + dev + 5
               /\ \E f \in {85, 90, 100, 115, 120}, j \in 90..110 :
                    returned[i].aqi = ClampAqi(base_aqi * f * j)

\* every one of the three calls was made and raised, and the series was
\* returned with jittered synthesized hours
C11_Witness ==
    /\ hist_pc = "done"
    /\ api_key
    /\ FetchesFailed
    /\ \E i \in 1..24 :
         returned[i].temperature # returned[25].temperature
                + hourly_temp_deviations[returned[i].hour + 1]

----------------------------------------------------------------------------
(* Claims about get_last_week_data *)

WeekDone == week_pc \in {"done", "done_fallback"}

WeekDatesReturned == {week_result[i].date : i \in 1..Len(week_result)}

\* C12: whatever the archive and the AQI history answer, the returned list
\* has exactly seven entries, one for each of the days today-7 .. today-1,
\* and none for today.
C12_SevenDays ==
    WeekDone =>
        /\ Len(week_result) = 7
        /\ WeekDatesReturned = (current_date - 7)..(current_date - 1)

\* C13: on every return path the returned entries are in strictly ascending
\* order of date.
C13_Ascending ==
    WeekDone =>
        \A i \in 1..(Len(week_result) - 1) :
            week_result[i].date < week_result[i + 1].date

----------------------------------------------------------------------------
(* Claims about get_health_recommendations *)

RecDone == rec_pc = "done"

HasSection(heading) ==
    \E i \in 1..Len(recommendations.text) : recommendations.text[i] = heading

\* C14: for every temperature and AQI, null or numeric, and every behaviour
\* of the LLM, the call runs to its return and returns a non-empty text.
C14_NonEmptyAdvice ==
    /\ RecDone \/ ENABLED NextRec
    /\ RecDone => recommendations.kind = "str" /\ recommendations.text # <<>>

\* each temperature band with its range lo <= t < hi, in tenths
TempBands ==
    {<<"extreme_heat", 350, 100000>>, <<"high_heat", 300, 350>>,
     <<"warm", 250, 300>>, <<"moderate", 150, 250>>, <<"cool", 50, 150>>,
     <<"cold", -50, 50>>, <<"extreme_cold", -100000, -50>>}

\* each AQI band with its range lo < a <= hi, in tenths
AqiBands ==
    {<<"good", -100000, 500>>, <<"moderate", 500, 1000>>,
     <<"unhealthy_sensitive", 1000, 1500>>, <<"unhealthy", 1500, 2000>>,
     <<"very_unhealthy", 2000, 3000>>, <<"hazardous", 3000, 100000>>}

\* C15: the rule-based text has the header, the footer and two sections:
\* the section of a temperature band is in it exactly when the temperature
\* lies in that band's range, and the section of an AQI band exactly when
\* the AQI lies in that band's range.
C15_BandSelection ==
    rec_source = "rules" =>
        /\ recommendations.kind = "str"
        /\ Len(recommendations.text) = 4
        /\ HasSection("## General Health Recommendations")
        /\ \A b \in TempBands :
            HasSection(temp_recommendations[b[1]])
                <=> (b[2] <= temperature_c /\ temperature_c < b[3])
        /\ \A b \in AqiBands :
            HasSection(aqi_recommendations[b[1]])
                <=> (b[2] < rec_aqi /\ rec_aqi <= b[3])

\* temperature 40 and AQI 250 gave the extreme-heat and very-unhealthy
\* sections
C15_Witness ==
    /\ rec_source = "rules"
    /\ temperature_c = 400
    /\ rec_aqi = 2500
    /\ HasSection("## Temperature Precautions (Extreme Heat)")
    /\ HasSection("## Air Quality Recommendations (Very Unhealthy)")

Succeeded(out) == out.status = "ok"

\* C16: with the client available the LLM is called at most three times;
\* no call follows a successful one, whose content is what the call
\* returns; after three failures the rule-based text is returned; and the
\* call always comes to its return.
C16_BoundedRetry ==
    /\ [](/\ Len(llm_log) <= 3
          /\ \A i \in 1..(Len(llm_log) - 1) : ~Succeeded(llm_log[i])
          /\ llm_log # <<>> /\ Succeeded(llm_log[Len(llm_log)]) =>
                /\ RecDone
                /\ rec_source = "llm"
                /\ recommendations = llm_log[Len(llm_log)].content
          /\ RecDone /\ client /\ rec_source = "rules" =>
                /\ Len(llm_log) = 3
                /\ \A i \in 1..3 : ~Succeeded(llm_log[i])
                /\ HasSection("## General Health Recommendations")
          /\ RecDone /\ client /\ rec_source = "llm" =>
                Succeeded(llm_log[Len(llm_log)]))
    /\ <>RecDone

\* three calls failed one after the other and the rule-based text came back
C16_Witness ==
    /\ RecDone
    /\ client
    /\ Len(llm_log) = 3
    /\ rec_source = "rules"

----------------------------------------------------------------------------
(* Claims about the subscriber store *)

\* this step is a statement of session s's call of op
Statement(s, op) ==
    /\ last_call[s].op = op
    /\ InStatement(last_call[s])
    /\ last_call'[s].pc # last_call[s].pc

\* C17: when add_subscriber looks up its email and the row exists and is
\* active, the statement leaves every row as it was and the call returns no
\* success; unless the lookup itself raised, the call returns there with
\* success = false and the message 'Email already subscribed'.
C17_DuplicateRejected ==
    [][\A s \in DbSessions :
         /\ Statement(s, "add_subscriber")
         /\ last_call[s].pc = "select"
         /\ \E r \in subscribers : r.email = last_call[s].email /\ r.is_active
         => /\ subscribers' = subscribers
            /\ last_call'[s].pc = "returned"
            /\ ~last_call'[s].result.success
            /\ ~last_call'[s].fault =>
                  last_call'[s].result.message = "Email already subscribed"]_vars

\* the duplicate was rejected, and the row still carries the name it had
C17_Witness ==
    \E s \in DbSessions :
       /\ last_call[s].op = "add_subscriber"
       /\ last_call[s].result.message = "Email already subscribed"
       /\ ~last_call[s].result.success
       /\ \E r \in subscribers :
            r.email = last_call[s].email /\ r.is_active /\ r.name # last_call[s].name

\* C18: the table never holds two rows with one email, however the calls
\* of the sessions interleave; and in a sequence of calls (no other call
\* ran during this one) the commit of an add_subscriber that found its
\* email's row inactive, unless it raised, keeps the number of rows and
\* leaves that row active with the name and the location of the call.
C18_OneRowPerEmail ==
    /\ [](\A r1, r2 \in subscribers : r1.email = r2.email => r1 = r2)
    /\ [][\A s \in DbSessions :
            /\ Statement(s, "add_subscriber")
            /\ last_call[s].pc = "write"
            /\ last_call[s].row # NoRow
            /\ ~last_call'[s].overlapped
            /\ ~last_call'[s].fault
            => /\ Cardinality(subscribers') = Cardinality(subscribers)
               /\ last_call'[s].result.success
               /\ last_call[s].row \in subscribers
               /\ subscribers' = (subscribers \ {last_call[s].row}) \cup
                    {[last_call[s].row EXCEPT
                        !.is_active = TRUE,
                        !.name = last_call[s].name,
                        !.location_city = last_call[s].place.city,
                        !.location_state = last_call[s].place.state,
                        !.location_country = last_call[s].place.country]}]_vars

\* a row made in an earlier call was reactivated under the other name
C18_Witness ==
    \E s \in DbSessions :
       /\ last_call[s].op = "add_subscriber"
       /\ ~last_call[s].overlapped
       /\ last_call[s].result.message = "Subscription reactivated successfully!"
       /\ \E r \in subscribers :
            /\ r.email = last_call[s].email
            /\ r.is_active
            /\ r.subscribed_at < db_calls
            /\ r.name = "Bob"
            /\ r.location_city = "Lyon"
            /\ r.id = 1
       /\ Cardinality(subscribers) = 2

\* C19: in a sequence of calls (no other call ran during this one) the
\* commit of an unsubscribe that found its email's row, unless it raised,
\* only sets that row's is_active to false; and, however the calls
\* interleave, a row leaves the table only in the commit of a
\* delete_subscriber or of a clear_all_subscribers, and in a sequence of
\* calls the delete_subscriber is the one on the row's email.
C19_SoftDelete ==
    [][/\ \A s \in DbSessions :
            /\ Statement(s, "unsubscribe")
            /\ last_call[s].pc = "write"
            /\ ~last_call'[s].overlapped
            /\ ~last_call'[s].fault
            => subscribers' =
                  {IF r.email = last_call[s].email
                   THEN [r EXCEPT !.is_active = FALSE] ELSE r : r \in subscribers}
       /\ \A r \in subscribers :
            (\A q \in subscribers' : q.id # r.id)
            => \E s \in DbSessions :
                  \/ /\ Statement(s, "delete_subscriber")
                     /\ ~last_call[s].overlapped => last_call[s].email = r.email
                  \/ Statement(s, "clear_all_subscribers")]_vars

\* the first call unsubscribed the row, which was active, and the row is
\* still in the table, inactive
C19_Witness ==
    \E s \in DbSessions :
       /\ last_call[s].op = "unsubscribe"
       /\ ~last_call[s].overlapped
       /\ last_call[s].result.success
       /\ db_calls = 1
       /\ \E r \in subscribers : r.email = last_call[s].email /\ ~r.is_active

DictOperations ==
    {"add_subscriber", "unsubscribe", "delete_subscriber", "count_subscribers",
     "clear_all_subscribers"}

\* C20: a call of one of the five operations that met a persistence
\* failure (no connection after get_db's attempts, or a statement raising)
\* returned a result with success = false and a message.
C20_FailuresReported ==
    \A s \in DbSessions :
       /\ last_call[s].op \in DictOperations
       /\ last_call[s].pc = "raised" \/ last_call[s].fault
       => /\ last_call[s].pc = "returned"
          /\ ~last_call[s].result.success
          /\ last_call[s].result.message # ""

----------------------------------------------------------------------------
(* Further claims about get_current_weather_and_aqi *)

\* what Provider B's answer holds for a field of the result
ReadingOfB(f) ==
    CASE f = "temperature" -> respB.main.temp
      [] f = "temperature_apparent" -> respB.main.feels_like
      [] f = "humidity" -> respB.main.humidity
      [] f = "pressure" -> respB.main.pressure
      [] f = "wind_speed" -> respB.wind_speed
      [] f = "cloud_cover" -> respB.clouds_all

\* C24: when Provider B was consulted, a field Provider A had read keeps
\* Provider A's reading or takes Provider B's non-null one.
C24_MergeKeepsReadings ==
    CurDone /\ "B" \in attempted =>
        \A f \in {"temperature", "temperature_apparent", "humidity", "pressure",
                  "wind_speed", "cloud_cover"} :
            after_a[f] # None =>
                \/ result[f] = after_a[f]
                \/ ReadingOfB(f) # None /\ result[f] = ReadingOfB(f)

----------------------------------------------------------------------------
(* Further claims about get_historical_data *)

\* the retrieved forecast points at most 'reach' minutes from a target hour
\* that satisfy 'usable', by position in retrieval order
Candidates(data, timestamp, reach, usable(_)) ==
    {k \in 1..Len(data) :
        data[k].has_dt /\ AbsDiff(data[k].dt, timestamp) <= reach /\ usable(data[k])}

Lowest(S) == CHOOSE k \in S : \A m \in S : k <= m

AnyPoint(pt) == TRUE
HasTemp(pt) == pt.temp # None
HasAqi(pt) == pt.kind \in {"components", "main"}

AqiOfPoint(pt) ==
    IF pt.kind = "components" THEN calculate_aqi_from_pollutants(pt.components)
    ELSE pt.main_aqi * 50

SynthesizedTemp(e) ==
    \E j \in -5..5 :
        e.temperature = current_temp + hourly_temp_deviations[e.hour + 1] + j

\* C25 as claimed: an hourly entry with a retrieved point at most 2 hours
\* from its hour has the temperature (the AQI) of the first such point, and
\* every other entry a synthesized one.
C25_FirstWithinTwoHours ==
    HistDone =>
        \A i \in 1..24 :
            LET e == returned[i]
                fc == Candidates(forecast_data, e.date, 120, AnyPoint)
                aq == Candidates(aqi_data, e.date, 120, AnyPoint)
            IN /\ IF fc # {}
                  THEN e.temperature = forecast_data[Lowest(fc)].temp
                  ELSE SynthesizedTemp(e)
               /\ aq # {} => e.aqi = AqiOfPoint(aqi_data[Lowest(aq)]) * 10000

\* the search of one target hour reaches a point without 'dt' before it
\* finds a usable point less than 2 hours away: reading fc_item['dt']
\* (line 435) or aqi_item['dt'] (line 453) raises
ReachesMalformed(data, timestamp, usable(_)) ==
    \E k \in 1..Len(data) :
        /\ ~data[k].has_dt
        /\ Candidates(SubSeq(data, 1, k - 1), timestamp, 119, usable) = {}

TargetHours == {HourFloor(now) - 60 * (24 - h) : h \in 0..23}

LoopRaises ==
    \E t \in TargetHours :
        \/ ReachesMalformed(forecast_data, t, HasTemp)
        \/ ReachesMalformed(aqi_data, t, HasAqi)

\* the handler's temperature offset of an hour of day, in tenths of a degree
HandlerTempOffsets ==
    [h \in 0..23 |->
        IF h \in 0..5 THEN -30
        ELSE IF h \in 6..13 THEN 5 * (h - 6)
        ELSE 40 - 5 * (h - 14)]

\* the handler's AQI factor of an hour of day, in hundredths
HandlerAqiFactors ==
    [h \in 0..23 |->
        IF h \in 0..7 THEN 110
        ELSE IF h \in 8..16 THEN 90
        ELSE IF h \in 17..20 THEN 105
        ELSE 95]

\* C25 as the code has it.  The call returns through the exception handler
\* exactly when the search of some target hour reaches a retrieved point
\* without 'dt'.  Otherwise an hourly entry has the temperature of the first
\* retrieved point that lies less than 2 hours from its hour and carries a
\* temperature, and a synthesized temperature exactly when there is no such
\* point; its AQI is the clamped AQI of the first point less than 2 hours
\* away that carries components or an index, and the clamped product of the
\* current AQI and two factors otherwise.  Through the handler no retrieved
\* point is used: every entry has the current temperature fetched again plus
\* the offset of its hour of day, and the clamped product of that current
\* AQI and the factor of its hour of day.
C25_FirstStrictlyWithin ==
    HistDone =>
        /\ hist_pc = "done_fallback" <=> LoopRaises
        /\ hist_pc = "done" =>
              \A i \in 1..24 :
                  LET e == returned[i]
                      fc == Candidates(forecast_data, e.date, 119, HasTemp)
                      aq == Candidates(aqi_data, e.date, 119, HasAqi)
                  IN /\ IF fc # {}
                        THEN e.temperature = forecast_data[Lowest(fc)].temp
                        ELSE SynthesizedTemp(e)
                     /\ IF aq # {}
                        THEN e.aqi = ClampAqi(AqiOfPoint(aqi_data[Lowest(aq)]) * 10000)
                        ELSE \E f \in {85, 90, 100, 115, 120}, j \in 90..110 :
                                e.aqi = ClampAqi(current_aqi * f * j)
        /\ hist_pc = "done_fallback" =>
              \A i \in 1..24 :
                  LET e == returned[i]
                  IN /\ e.temperature = current_data.temperature
                                          + HandlerTempOffsets[e.hour]
                     /\ e.aqi = ClampAqi(current_data.aqi
                                         * HandlerAqiFactors[e.hour] * 100)

\* an hour with two usable points in its window took the first one, not the
\* nearer one; another hour had its only point exactly 2 hours away and a
\* synthesized temperature; and an hour whose first AQI point computes to 0
\* got the clamped value 1
C25_Witness ==
    /\ hist_pc = "done"
    /\ \E i \in 1..24 :
         LET fc == Candidates(forecast_data, returned[i].date, 119, HasTemp)
         IN /\ Cardinality(fc) = 2
            /\ forecast_data[1].temp # forecast_data[2].temp
            /\ AbsDiff(forecast_data[2].dt, returned[i].date)
                 < AbsDiff(forecast_data[1].dt, returned[i].date)
            /\ returned[i].temperature = forecast_data[1].temp
    /\ \E i \in 1..24 :
         /\ Candidates(forecast_data, returned[i].date, 120, HasTemp) # {}
         /\ Candidates(forecast_data, returned[i].date, 119, HasTemp) = {}
         /\ SynthesizedTemp(returned[i])
    /\ \E i \in 1..24 :
         LET aq == Candidates(aqi_data, returned[i].date, 119, HasAqi)
         IN /\ aq # {}
            /\ AqiOfPoint(aqi_data[Lowest(aq)]) = 0
            /\ returned[i].aqi = 10000

\* latitudes (tenths of a degree) on both sides of the band limits 23.5 and
\* 45, in either hemisphere
LatSamples == {-900, -600, -450, -449, -400, -235, -234, -100, 0,
               100, 234, 235, 400, 449, 450, 600, 900}

LatBand(lat_) ==
    LET abs_lat == IF lat_ < 0 THEN -lat_ ELSE lat_
    IN IF abs_lat < 235 THEN "tropical"
       ELSE IF abs_lat < 450 THEN "temperate" ELSE "polar"

\* a latitude in the middle of the band and hemisphere of lat_
MidBand(lat_) ==
    LET mid == CASE LatBand(lat_) = "tropical" -> 100
                 [] LatBand(lat_) = "temperate" -> 400
                 [] LatBand(lat_) = "polar" -> 600
    IN IF lat_ > 0 THEN mid ELSE -mid

SixMonthsAway(m) == ((m + 5) % 12) + 1

\* C26: on the normal path the base temperature is the fetched temperature
\* when that lies in [-50, 50] and the estimate of the place and month
\* otherwise; the trailing entry reports it and it lies in [-50, 50]; the
\* estimate depends on band, hemisphere and month only, and outside the
\* tropics the southern estimate of a month is the northern estimate of the
\* month six months away.
C26_PlausibleBase ==
    /\ hist_pc = "done" =>
         LET t == current_data.temperature
         IN /\ t # None
            /\ current_temp = IF -500 <= t /\ t <= 500 THEN t
                              ELSE EstimateTemp(place[1], place[2])
            /\ returned[25].temperature = current_temp
            /\ -500 <= current_temp /\ current_temp <= 500
    /\ hist_pc = "done" =>
         \A l \in LatSamples, m \in 1..12 :
            /\ EstimateTemp(l, m) = EstimateTemp(MidBand(l), m)
            /\ (l > 0 /\ LatBand(l) # "tropical")
                 => EstimateTemp(-l, m) = EstimateTemp(l, SixMonthsAway(m))

\* a southern place whose provider reported 61.2 degrees got the estimate of
\* its band and month in the trailing entry
C26_Witness ==
    /\ hist_pc = "done"
    /\ current_data.temperature = 612
    /\ place = <<-400, 7>>
    /\ returned[25].temperature = 50

----------------------------------------------------------------------------
(* Further claims about get_last_week_data *)

\* C28: every entry get_last_week_data fabricates itself, after an archive
\* failure or in its exception handler, has temp_min <= temp_avg <= temp_max.
C28_FabricatedOrdering ==
    (week_pc = "done_fallback" \/ (week_pc = "done" /\ weather_data = NoArchive)) =>
        \A i \in 1..Len(week_result) :
            /\ week_result[i].temp_min <= week_result[i].temp_avg
            /\ week_result[i].temp_avg <= week_result[i].temp_max

----------------------------------------------------------------------------
(* Claims about get_forecast_data *)

FcDone == fc_pc \in {"done", "done_fallback"}

\* C23: the placeholder series is returned only when the temperature
\* forecast could not be retrieved; when it was retrieved and the
\* AQI-forecast call failed, the per-date temperature aggregates are
\* returned with aqi_min = aqi_max = aqi_avg = 50.
C23_PlaceholderOnlyOnTotalFailure ==
    FcDone =>
        /\ processed_forecast = PlaceholderForecast(fc_today)
             => fc_raised \in {"key", "forecast"}
        /\ (fc_forecast.status = "ok" /\ fc_raised = "aqi") =>
             /\ processed_forecast = ProcessForecast(fc_forecast, NoAnswer).list
             /\ \A i \in 1..Len(processed_forecast) :
                  /\ processed_forecast[i].aqi_min = 50
                  /\ processed_forecast[i].aqi_max = 50
                  /\ processed_forecast[i].aqi_avg = [num |-> 50, den |-> 1]

\* the calendar dates present in the temperature forecast
ForecastDates ==
    {DateOf(fc_forecast.list[k].dt) : k \in 1..Len(fc_forecast.list)}

ReturnedDates ==
    {processed_forecast[i].date : i \in 1..Len(processed_forecast)}

\* C27: when both calls succeed and the answers are processed, the list has
\* at most 7 entries, one for each of the earliest dates of the temperature
\* forecast, in strictly ascending order of date; a date that only AQI
\* samples fall on has no entry.
C27_AggregationShape ==
    fc_pc = "done" =>
        /\ Len(processed_forecast) <= 7
        /\ Len(processed_forecast)
             = (IF Cardinality(ForecastDates) < 7 THEN Cardinality(ForecastDates)
                ELSE 7)
        /\ \A i \in 1..(Len(processed_forecast) - 1) :
             processed_forecast[i].date < processed_forecast[i + 1].date
        /\ ReturnedDates \subseteq ForecastDates
        /\ \A d \in ForecastDates \ ReturnedDates :
             \A r \in ReturnedDates : r < d

\* nine forecast dates were cut to seven while the AQI answer held a sample
\* on a date outside the forecast
C27_Witness ==
    /\ fc_pc = "done"
    /\ Cardinality(ForecastDates) = 9
    /\ Len(processed_forecast) = 7
    /\ \E k \in 1..Len(aqi_forecast.list) :
         /\ aqi_forecast.list[k].has_dt
         /\ DateOf(aqi_forecast.list[k].dt) \notin ForecastDates

----------------------------------------------------------------------------
(* Claims about the newsletter job *)

Attempted == [i \in 1..Len(attempt_log) |-> attempt_log[i].email]

Listed == [i \in 1..Len(news_subscribers) |-> news_subscribers[i].email]

AttemptsFollowList ==
    /\ Len(attempt_log) <= Len(news_subscribers)
    /\ Attempted = SubSeq(Listed, 1, Len(attempt_log))
    /\ news_pc = "done" => Attempted = Listed

\* C21: in one run the subscribers of the list read at the start are
\* attempted once each and in list order, whatever the outcome of the other
\* attempts, and the run ends after the last of them.
C21_BatchIsolation ==
    /\ []AttemptsFollowList
    /\ (news_pc = "next") ~> (news_pc = "done" /\ Attempted = Listed)

\* a run of two subscribers ended with the second mailed although the
\* attempt for the first had failed
C21_Witness ==
    /\ news_pc = "done"
    /\ Len(news_subscribers) = 2
    /\ Len(attempt_log) = 2
    /\ attempt_log[1].outcome \in {"gather_error", "render_error", "rejected",
                                    "post_error"}
    /\ attempt_log[2].outcome = "sent"

\* a step of send_newsletter_to_subscriber: the job moves on from one of
\* the function's positions
SendStep ==
    /\ news_pc \in {"gather", "post", "update", "updating"}
    /\ news_pc' # news_pc \/ last_call'[NewsJob] # last_call[NewsJob]

\* the two tables hold the same rows but for last_email_sent of the row
\* with the given email
SameButLastSent(before, after, email) ==
    /\ {r.id : r \in after} = {r.id : r \in before}
    /\ \A r \in before :
         \E q \in after :
            /\ q.id = r.id
            /\ \/ q = r
               \/ r.email = email /\ q = [r EXCEPT !.last_email_sent = q.last_email_sent]

\* C22: a step of send_newsletter_to_subscriber leaves the table as it is,
\* except that after a 2xx reply it may set last_email_sent of the row with
\* the subscriber's email; it creates and removes no row.
C22_WriteFootprint ==
    [][SendStep =>
        /\ SameButLastSent(subscribers, subscribers', Current.email)
        /\ subscribers' # subscribers => response = "2xx"
        /\ (news_pc' = "next" /\ response' # "2xx") => subscribers' = subscribers
      ]_vars

\* C30: a newsletter is sent only to a subscriber who is active when it is
\* sent, and last_email_sent is set only for such a subscriber.
C30_NoMailToUnsubscribed ==
    /\ \A i \in 1..Len(attempt_log) :
         attempt_log[i].outcome = "sent" => attempt_log[i].active
    /\ \A r \in subscribers :
         r.last_email_sent # None =>
            \E i \in 1..Len(attempt_log) :
               /\ attempt_log[i].email = r.email
               /\ attempt_log[i].active

----------------------------------------------------------------------------
(* Claims about the scheduler *)

\* C29: whatever the order and interleaving of the start_scheduler and
\* stop_scheduler calls, at most one weekly job is registered, and one
\* weekly trigger runs send_newsletters at most once.
C29_SingleWeeklyJob ==
    /\ sched_jobs <= 1
    /\ trigger_runs <= 1

====
